---- MODULE Spec2Model ----
(***************************************************************************)
(* Returns & warranty assistant: the dialogue Coordinator                  *)
(* (app/chat_coordinator.py) with its collaborators, the Record Store      *)
(* (app/agents/retrieval_agent.py, app/db/models.py), the CSV loader       *)
(* (app/rag/ingest.py), the Forecaster, the Aggregator and the Semantic    *)
(* Index (app/rag/retrieve.py).                                            *)
(*                                                                         *)
(* Texts are sequences of one-character strings, so that the regular       *)
(* expressions and the substring tests of the code are computed character  *)
(* by character.  An optional Python value is None == <<>> or Some(v) ==   *)
(* <<v>>.  A float parsed from a decimal literal is the exact decimal      *)
(* [m, e] = m / 10^e, a date its proleptic Gregorian ordinal               *)
(* (date.toordinal()).                                                     *)
(***************************************************************************)
EXTENDS Integers, Sequences, FiniteSets, TLC

\* ------------------------------------------------------------------------
\* Optional values and Python truthiness
\* ------------------------------------------------------------------------
None == <<>>

Some(v) == <<v>>

Val(o) == o[1]

\* F applied to the value of e, e being evaluated once
Bind(e, F(_)) == CHOOSE y \in { F(x) : x \in {e} } : TRUE

\* ------------------------------------------------------------------------
\* Characters
\* ------------------------------------------------------------------------
LowerAlpha ==
  << "a","b","c","d","e","f","g","h","i","j","k","l","m",
     "n","o","p","q","r","s","t","u","v","w","x","y","z" >>

UpperAlpha ==
  << "A","B","C","D","E","F","G","H","I","J","K","L","M",
     "N","O","P","Q","R","S","T","U","V","W","X","Y","Z" >>

Digits == << "0","1","2","3","4","5","6","7","8","9" >>

IndexIn(c, alphabet) ==
  IF \E i \in 1..Len(alphabet) : alphabet[i] = c
  THEN CHOOSE i \in 1..Len(alphabet) : alphabet[i] = c
  ELSE 0

IsLetter(c) == IndexIn(c, LowerAlpha) > 0 \/ IndexIn(c, UpperAlpha) > 0

IsDigit(c) == IndexIn(c, Digits) > 0

DigitVal(c) == IndexIn(c, Digits) - 1

IsSpace(c) == c = " "

\* \w of the re module: letters, digits and the underscore
IsWordChar(c) == IsLetter(c) \/ IsDigit(c) \/ c = "_"

LowerChar(c) ==
  IF IndexIn(c, UpperAlpha) > 0 THEN LowerAlpha[IndexIn(c, UpperAlpha)] ELSE c

UpperChar(c) ==
  IF IndexIn(c, LowerAlpha) > 0 THEN UpperAlpha[IndexIn(c, LowerAlpha)] ELSE c

\* ------------------------------------------------------------------------
\* str methods
\* ------------------------------------------------------------------------
Lower(s) == [i \in 1..Len(s) |-> LowerChar(s[i])]

Upper(s) == [i \in 1..Len(s) |-> UpperChar(s[i])]

Tail_(s, i) == SubSeq(s, i, Len(s))

\* str.strip()
Strip(s) ==
  IF \A i \in 1..Len(s) : IsSpace(s[i]) THEN <<>>
  ELSE LET a == CHOOSE i \in 1..Len(s) :
                  ~IsSpace(s[i]) /\ \A j \in 1..(i-1) : IsSpace(s[j])
           b == CHOOSE i \in 1..Len(s) :
                  ~IsSpace(s[i]) /\ \A j \in (i+1)..Len(s) : IsSpace(s[j])
       IN  SubSeq(s, a, b)

\* str.lstrip()
LStrip(s) ==
  IF \A i \in 1..Len(s) : IsSpace(s[i]) THEN <<>>
  ELSE Tail_(s, CHOOSE i \in 1..Len(s) :
                  ~IsSpace(s[i]) /\ \A j \in 1..(i-1) : IsSpace(s[j]))

\* s[i:i+len(k)] == k
StartsAt(s, k, i) ==
  /\ i >= 1
  /\ i + Len(k) - 1 <= Len(s)
  /\ \A j \in 1..Len(k) : s[i + j - 1] = k[j]

\* s[i:i+len(k)].lower() == k
StartsAtNoCase(s, k, i) ==
  /\ i >= 1
  /\ i + Len(k) - 1 <= Len(s)
  /\ \A j \in 1..Len(k) : LowerChar(s[i + j - 1]) = k[j]

\* k in s
Contains(s, k) == \E i \in 1..Len(s) : StartsAt(s, k, i)

\* any(k in s for k in ks)
ContainsAny(s, ks) == \E k \in ks : Contains(s, k)

\* s.find(k), 1-based; 0 when k is not in s
Find(s, k) ==
  IF Contains(s, k)
  THEN CHOOSE i \in 1..Len(s) :
         StartsAt(s, k, i) /\ \A j \in 1..(i-1) : ~StartsAt(s, k, j)
  ELSE 0

\* len(s.split())
WordCount(s) ==
  Cardinality({ i \in 1..Len(s) :
                  ~IsSpace(s[i]) /\ (i = 1 \/ IsSpace(s[i-1])) })

\* ------------------------------------------------------------------------
\* Numbers and dates of the Python library, as the code uses them
\* ------------------------------------------------------------------------
Min(a, b) == IF a <= b THEN a ELSE b

Max(a, b) == IF a >= b THEN a ELSE b

Abs(x) == IF x < 0 THEN -x ELSE x

RECURSIVE Pow10(_)
Pow10(e) == IF e = 0 THEN 1 ELSE 10 * Pow10(e - 1)

\* int("123")
RECURSIVE DigitsToNat(_)
DigitsToNat(ds) ==
  IF ds = <<>> THEN 0
  ELSE 10 * DigitsToNat(SubSeq(ds, 1, Len(ds) - 1)) + DigitVal(ds[Len(ds)])

\* str(123)
RECURSIVE NatToDigits(_)
NatToDigits(n) ==
  IF n < 10 THEN <<Digits[n + 1]>>
  ELSE NatToDigits(n \div 10) \o <<Digits[(n % 10) + 1]>>

\* zero-padded to width w: "%02d"
RECURSIVE Pad(_, _)
Pad(ds, w) == IF Len(ds) >= w THEN ds ELSE Pad(<<"0">> \o ds, w)

RECURSIVE StripZeros(_)
StripZeros(ds) ==
  IF ds # <<>> /\ ds[Len(ds)] = "0" THEN StripZeros(SubSeq(ds, 1, Len(ds) - 1))
  ELSE ds

\* float("12.50"): the decimal m / 10^e with no trailing zero, which is how
\* two floats parsed from short decimal literals compare
ParseFloat(intDigits, fracDigits) ==
  Bind(StripZeros(fracDigits), LAMBDA f :
    [m |-> DigitsToNat(intDigits \o f), e |-> Len(f)])

\* str(float): "50.0", "12.5"
FormatFloat(p) ==
  LET ip == p.m \div Pow10(p.e)
      fp == p.m % Pow10(p.e)
  IN  NatToDigits(ip) \o <<".">> \o
        (IF p.e = 0 THEN <<"0">> ELSE Pad(NatToDigits(fp), p.e))

IsLeap(y) == (y % 4 = 0) /\ ((y % 100 # 0) \/ (y % 400 = 0))

DaysInMonth(y, m) ==
  IF m = 2 THEN (IF IsLeap(y) THEN 29 ELSE 28)
  ELSE IF m \in {4, 6, 9, 11} THEN 30 ELSE 31

DaysBeforeYear(y) ==
  LET z == y - 1 IN z * 365 + (z \div 4) - (z \div 100) + (z \div 400)

RECURSIVE DaysBeforeMonth(_, _)
DaysBeforeMonth(y, m) ==
  IF m = 1 THEN 0 ELSE DaysBeforeMonth(y, m - 1) + DaysInMonth(y, m - 1)

\* date(y, m, d).toordinal()
ToOrdinal(y, m, d) == DaysBeforeYear(y) + DaysBeforeMonth(y, m) + d

\* date.fromordinal(n), as <<y, m, d>>, for the years the model uses
Years == 2024..2026

FromOrdinal(n) ==
  Bind(CHOOSE yy \in Years :
         DaysBeforeYear(yy) < n /\ n <= DaysBeforeYear(yy + 1), LAMBDA y :
    Bind(n - DaysBeforeYear(y), LAMBDA r :
      Bind(CHOOSE mm \in 1..12 :
             DaysBeforeMonth(y, mm) < r
               /\ r <= DaysBeforeMonth(y, mm) + DaysInMonth(y, mm), LAMBDA m :
        <<y, m, r - DaysBeforeMonth(y, m)>>)))

\* str(date): date.isoformat()
IsoFormat(n) ==
  Bind(FromOrdinal(n), LAMBDA ymd :
    Pad(NatToDigits(ymd[1]), 4) \o <<"-">> \o Pad(NatToDigits(ymd[2]), 2)
      \o <<"-">> \o Pad(NatToDigits(ymd[3]), 2))

\* datetime.strptime(s, "%Y-%m-%d").date() on a string of the shape
\* dddd-dd-dd: Some(ordinal), or None where strptime raises ValueError
Strptime(s) ==
  Bind(<< DigitsToNat(SubSeq(s, 1, 4)), DigitsToNat(SubSeq(s, 6, 7)),
          DigitsToNat(SubSeq(s, 9, 10)) >>, LAMBDA ymd :
    IF /\ ymd[1] >= 1 /\ ymd[2] \in 1..12
       /\ ymd[3] >= 1 /\ ymd[3] <= DaysInMonth(ymd[1], ymd[2])
    THEN Some(ToOrdinal(ymd[1], ymd[2], ymd[3]))
    ELSE None)

\* date.today(): the day the session runs on
Today == ToOrdinal(2025, 1, 15)

\* ------------------------------------------------------------------------
\* Inputs: the user messages the sessions send
\* ------------------------------------------------------------------------
MsgReturnIphone == <<"I"," ","w","a","n","t"," ","t","o"," ","r","e","t","u","r","n"," ","m","y"," ","i","P","h","o","n","e">>

MsgTarget == <<"T","a","r","g","e","t">>

MsgDate == <<"2","0","2","5","-","0","1","-","0","1">>

MsgNotWorking == <<"n","o","t"," ","w","o","r","k","i","n","g">>

MsgPrice == <<"5","0"," ","U","S","D">>

MsgBrokenToday == <<"b","r","o","k","e","n"," ","t","o","d","a","y">>

MsgZeroPrice == <<"0"," ","U","S","D"," ","t","h","i","s"," ","w","e","e","k">>

MsgForecast == <<"f","o","r","e","c","a","s","t"," ","r","e","t","u","r","n","s"," ","r","e","p","o","r","t"," ","n","e","x","t"," ","w","e","e","k">>

MsgReport == <<"r","e","p","o","r","t"," ","o","n"," ","r","e","t","u","r","n","s"," ">>

MsgQuestion == <<"u","s","b"," ","i","s","s","u","e","s"," ","t","h","i","s"," ","w","e","e","k">>

Messages ==
  { MsgReturnIphone, MsgTarget, MsgDate, MsgNotWorking, MsgPrice,
    MsgBrokenToday, MsgZeroPrice, MsgForecast, MsgReport }

\* a whole return in one message, and a question, for the sessions that
\* run side by side
MsgOneShot == <<"r","e","t","u","r","n"," ","m","y"," ","t","v"," ","f","r","o","m"," ","T","a","r","g","e","t"," ","2","0","2","5","-","0","1","-","0","1"," ","b","r","o","k","e","n"," ","t","o","d","a","y"," ","5","0"," ","U","S","D">>

StoreMessages == { MsgOneShot, MsgQuestion }

\* the same return without the word that sets the return date
MsgNoReturnDate == <<"r","e","t","u","r","n"," ","m","y"," ","t","v"," ","f","r","o","m"," ","T","a","r","g","e","t"," ","2","0","2","5","-","0","1","-","0","1"," ","b","r","o","k","e","n"," ","5","0"," ","U","S","D">>

\* one message of every flow, for a caller that uses them all, and a
\* return dated with a token of the shape of a date that names no day
LedgerMessages ==
  { MsgOneShot, MsgNoReturnDate, MsgQuestion, MsgForecast, MsgReport,
    <<"r","e","t","u","r","n"," ","m","y"," ","t","v"," ","2","0","2","5","-","1","3","-","4","5">> }

\* utterances _extract_fields is called on, on its own: returns of things
\* with and without an article, some named with the letters of one, and
\* short answers
Utterances ==
  { <<"r","e","t","u","r","n"," ","a","p","p","l","e"," ","t","v">>,
    <<"r","e","t","u","r","n"," ","a","n","s","w","e","r","i","n","g"," ","m","a","c","h","i","n","e">>,
    <<"r","e","t","u","r","n"," ","m","y","s","t","e","r","y"," ","b","o","x">>,
    <<"r","e","t","u","r","n"," ","m","y"," ","i","P","h","o","n","e">>,
    <<"r","e","t","u","r","n"," ","a","n"," ","o","r","a","n","g","e"," ","l","a","m","p">>,
    <<"r","e","t","u","r","n"," ","a"," ","t","v">>,
    <<"r","e","t","u","r","n"," ","t","v">>,
    <<"r","e","f","u","n","d"," ","p","l","e","a","s","e">>,
    <<"R","e","t","u","r","n"," ","M","y"," "," "," ","o","l","d"," ","l","a","p","t","o","p"," ","f","r","o","m"," ","B","e","s","t"," ","B","u","y">>,
    MsgTarget }

AllMessages == Messages \cup StoreMessages \cup LedgerMessages \cup Utterances

\* user_text.strip() of every message
Texts == { Strip(m) : m \in AllMessages }

\* ------------------------------------------------------------------------
\* Coordinator._classify_intent
\* ------------------------------------------------------------------------
ForecastKeywords == { <<"f","o","r","e","c","a","s","t">>, <<"p","r","e","d","i","c","t">>, <<"n","e","x","t">> }

AnalyticsKeywords == { <<"r","e","p","o","r","t">>, <<"a","n","a","l","y","s","i","s">>, <<"h","o","w"," ","m","a","n","y">>, <<"t","r","e","n","d">>, <<"e","x","c","e","l">> }

ReturnKeywords == { <<"r","e","t","u","r","n">>, <<"r","e","f","u","n","d">> }

\* the same rules with the analytics keywords tried first: a variant the
\* properties must tell from the code's order
classify_intent_analytics_first(text) ==
  Bind(Lower(text), LAMBDA t :
    IF ContainsAny(t, AnalyticsKeywords) THEN "analytics"
    ELSE IF ContainsAny(t, ForecastKeywords) THEN "forecast"
    ELSE IF ContainsAny(t, ReturnKeywords) THEN "insert_return"
    ELSE "rag")

classify_intent(text) ==
  Bind(Lower(text), LAMBDA t :
    IF ContainsAny(t, ForecastKeywords) THEN "forecast"
    ELSE IF ContainsAny(t, AnalyticsKeywords) THEN "analytics"
    ELSE IF ContainsAny(t, ReturnKeywords) THEN "insert_return"
    ELSE "rag")

\* ------------------------------------------------------------------------
\* The regular expressions of Coordinator._extract_fields (re.search: the
\* leftmost match, greedy with backtracking).  Each gives None or Some(...)
\* ------------------------------------------------------------------------
\* \s*(.+) or the tail of \s+(.+) on the rest r of the text: the group is
\* what follows the white space; when only white space is left, \s gives
\* its last character back to (.+)
GroupAfterSpace(r) ==
  IF r = <<>> THEN None
  ELSE Bind(LStrip(r), LAMBDA g :
         IF g # <<>> THEN Some(g) ELSE Some(<<r[Len(r)]>>))

\* (?:my|an|a)?\s*(.+) on the rest r: the alternatives in order, then the
\* match without an article
ProductAfter(r, a) ==
  IF StartsAtNoCase(r, a, 1)
  THEN GroupAfterSpace(Tail_(r, Len(a) + 1))
  ELSE None

ProductGroup(r) ==
  Bind(<< ProductAfter(r, <<"m","y">>), ProductAfter(r, <<"a","n">>), ProductAfter(r, <<"a">>) >>,
       LAMBDA c :
         IF c[1] # None THEN c[1]
         ELSE IF c[2] # None THEN c[2]
         ELSE IF c[3] # None THEN c[3]
         ELSE GroupAfterSpace(r))

\* re.search(r"return (?:my|an|a)?\s*(.+)", text, re.I).group(1)
MatchProduct(text) ==
  Bind(Find(Lower(text), <<"r","e","t","u","r","n"," ">>), LAMBDA i :
    IF i = 0 THEN None ELSE ProductGroup(Tail_(text, i + 7)))

\* (?:from|at)\s+(.+) tried at position i
StoreAt(text, i) ==
  Bind(IF StartsAtNoCase(text, <<"f","r","o","m">>, i) THEN i + 4
       ELSE IF StartsAtNoCase(text, <<"a","t">>, i) THEN i + 2
       ELSE 0,
       LAMBDA j :
         IF j = 0 \/ j > Len(text) \/ ~IsSpace(text[j]) THEN None
         ELSE Bind(LStrip(Tail_(text, j)), LAMBDA g :
                IF g # <<>> THEN Some(g)
                ELSE IF Len(text) - j + 1 >= 2 THEN Some(<<text[Len(text)]>>)
                ELSE None))

\* re.search(r"(?:from|at)\s+(.+)", text, re.I).group(1)
RECURSIVE StoreFrom(_, _)
StoreFrom(text, i) ==
  IF i > Len(text) THEN None
  ELSE Bind(StoreAt(text, i), LAMBDA g :
         IF g # None THEN g ELSE StoreFrom(text, i + 1))

MatchStore(text) == StoreFrom(text, 1)

\* a character class of the patterns: \d, \s or [A-Za-z]
InClass(class, c) ==
  IF class = "digit" THEN IsDigit(c)
  ELSE IF class = "space" THEN IsSpace(c)
  ELSE IsLetter(c)

\* the length of the longest run of characters of the class from position i
RunLen(s, i, class) ==
  IF i > Len(s) \/ ~InClass(class, s[i]) THEN 0
  ELSE CHOOSE n \in 1..(Len(s) - i + 1) :
         /\ \A k \in 0..(n-1) : InClass(class, s[i + k])
         /\ (i + n > Len(s) \/ ~InClass(class, s[i + n]))

\* (\d+(?:\.\d+)?)\s*([A-Za-z]{2,5}) tried at position i
PriceAt(text, i) ==
  Bind(RunLen(text, i, "digit"), LAMBDA n1 :
    IF n1 = 0 THEN None
    ELSE Bind(IF i + n1 <= Len(text) /\ text[i + n1] = "."
              THEN RunLen(text, i + n1 + 1, "digit") ELSE 0, LAMBDA n2 :
      Bind(IF n2 > 0 THEN i + n1 + 1 + n2 ELSE i + n1, LAMBDA b :
        Bind(b + RunLen(text, b, "space"), LAMBDA c :
          Bind(RunLen(text, c, "letter"), LAMBDA n3 :
            IF n3 < 2 THEN None
            ELSE Some([ price |-> ParseFloat(SubSeq(text, i, i + n1 - 1),
                                             SubSeq(text, i + n1 + 1, b - 1)),
                        currency |-> SubSeq(text, c, c + Min(n3, 5) - 1) ]))))))

\* re.search(r"(\d+(?:\.\d+)?)\s*([A-Za-z]{2,5})", text): groups 1 and 2
RECURSIVE PriceFrom(_, _)
PriceFrom(text, i) ==
  IF i > Len(text) THEN None
  ELSE Bind(PriceAt(text, i), LAMBDA g :
         IF g # None THEN g ELSE PriceFrom(text, i + 1))

MatchPrice(text) == PriceFrom(text, 1)

\* \b(20\d{2}-\d{2}-\d{2})\b tried at position i
DateAt(text, i) ==
  /\ i + 9 <= Len(text)
  /\ text[i] = "2" /\ text[i+1] = "0"
  /\ IsDigit(text[i+2]) /\ IsDigit(text[i+3])
  /\ text[i+4] = "-"
  /\ IsDigit(text[i+5]) /\ IsDigit(text[i+6])
  /\ text[i+7] = "-"
  /\ IsDigit(text[i+8]) /\ IsDigit(text[i+9])
  /\ (i = 1 \/ ~IsWordChar(text[i-1]))
  /\ (i + 10 > Len(text) \/ ~IsWordChar(text[i+10]))

\* re.search(r"\b(20\d{2}-\d{2}-\d{2})\b", text).group(1)
RECURSIVE DateFrom(_, _)
DateFrom(text, i) ==
  IF i > Len(text) THEN None
  ELSE IF DateAt(text, i) THEN Some(SubSeq(text, i, i + 9))
  ELSE DateFrom(text, i + 1)

MatchDate(text) == DateFrom(text, 1)

\* the keyword lists of _extract_fields
StoreBlocklist == { <<"w","o","r","k","i","n","g">>, <<"b","r","o","k","e","n">>, <<"w","e","e","k">>, <<"t","o","d","a","y">> }

ReasonKeywords == { <<"n","o","t"," ","w","o","r","k","i","n","g">>, <<"b","r","o","k","e","n">>, <<"d","e","f","e","c","t","i","v","e">> }

\* what the tests and searches of _extract_fields find in a text, computed
\* once per message
TextFacts(text) ==
  Bind(Lower(text), LAMBDA t :
    [ product   |-> MatchProduct(text),
      store     |-> MatchStore(text),
      price     |-> MatchPrice(text),
      date      |-> MatchDate(text),
      words     |-> WordCount(text),
      blocked   |-> ContainsAny(t, StoreBlocklist),
      defect    |-> ContainsAny(t, ReasonKeywords),
      last_week |-> Contains(t, <<"l","a","s","t"," ","w","e","e","k">>),
      today     |-> Contains(t, <<"t","o","d","a","y">>) ])

FactsTable == [ m \in Texts |-> TextFacts(m) ]

Facts(text) == FactsTable[text]

\* ------------------------------------------------------------------------
\* ConversationState (chat_coordinator.py)
\* ------------------------------------------------------------------------
\* state.mode is None
NoMode == "None"

\* the default_factory of ConversationState.pending_return; also what
\* {k: None for k in state.pending_return} builds
EmptyPending ==
  [ product_name |-> None, product_category |-> None, store_name |-> None,
    city |-> None, country |-> None, purchase_date |-> None,
    return_date |-> None, reason_raw |-> None, price |-> None,
    currency |-> None, discount_pct |-> None ]

ConversationState == [ pending_return |-> EmptyPending, mode |-> NoMode ]

FloatKeys == { "price", "discount_pct" }

DateKeys == { "purchase_date", "return_date" }

\* Python's "not v" for the value held under key k: None is falsy, and so
\* are the float 0.0 and the empty str; a date is always truthy
Falsy(k, o) ==
  IF o = None THEN TRUE
  ELSE IF k \in FloatKeys THEN Val(o).m = 0
  ELSE IF k \in DateKeys THEN FALSE
  ELSE Val(o) = <<>>

\* ------------------------------------------------------------------------
\* Record Store: RetrievalAgent and the returns table
\* ------------------------------------------------------------------------
\* hashlib.sha256(...).hexdigest(): a collision-free digest of its input
Sha256(s) == <<"sha256", s>>

Bar == <<"|">>

\* RetrievalAgent._generate_dedupe_key
generate_dedupe_key(data) ==
  Sha256(data.product_name \o Bar \o data.store_name \o Bar
           \o IsoFormat(data.purchase_date) \o Bar
           \o FormatFloat(data.price) \o Bar \o data.currency)

\* InsertReturnRequest(**fields): pydantic validation of the declared types.
\* str, date and float fields refuse None; Optional[...] fields accept it.
\* ok, or the names of the fields the ValidationError reports
RequestRequired ==
  << "product_name", "store_name", "purchase_date", "return_date",
     "reason_raw", "price", "currency" >>

InsertReturnRequest(fields) ==
  LET bad == SelectSeq(RequestRequired, LAMBDA k : fields[k] = None)
  IN  IF bad # <<>> THEN [ok |-> FALSE, errors |-> bad, data |-> None]
      ELSE [ ok |-> TRUE, errors |-> <<>>,
             data |-> [ product_name |-> Val(fields.product_name),
                        product_category |-> fields.product_category,
                        store_name |-> Val(fields.store_name),
                        city |-> fields.city,
                        country |-> fields.country,
                        purchase_date |-> Val(fields.purchase_date),
                        return_date |-> Val(fields.return_date),
                        reason_raw |-> Val(fields.reason_raw),
                        price |-> Val(fields.price),
                        currency |-> Val(fields.currency),
                        discount_pct |-> fields.discount_pct ] ]

\* Return(...): the row built from the request, id assigned by the table
NewReturn(request, id) ==
  [ id |-> id,
    product_name |-> request.product_name,
    product_category |-> request.product_category,
    store_name |-> request.store_name,
    city |-> request.city,
    country |-> request.country,
    purchase_date |-> request.purchase_date,
    return_date |-> request.return_date,
    reason_raw |-> request.reason_raw,
    price |-> request.price,
    currency |-> request.currency,
    discount_pct |-> request.discount_pct,
    dedupe_key |-> generate_dedupe_key(request) ]

\* UniqueConstraint("dedupe_key"): the commit is refused (IntegrityError)
\* when a row of the table already carries the key
ViolatesUnique(db, row) ==
  \E i \in 1..Len(db) : db[i].dedupe_key = row.dedupe_key

DuplicateMessage ==
  "Duplicate return detected. This item appears to have already been returned."

\* an insert into a table without the unique constraint: a variant the
\* properties must tell from the code's table
insert_return_no_constraint(db, request) ==
  Bind(NewReturn(request, Len(db) + 1), LAMBDA row :
    [ db |-> Append(db, row), raised |-> FALSE, row |-> row ])

\* an insert that takes the place of the newest row, as a merge would: a
\* variant the properties must tell from the code's db.add
insert_return_overwrites(db, request) ==
  Bind(NewReturn(request, Max(Len(db), 1)), LAMBDA row :
    IF ViolatesUnique(db, row)
    THEN [ db |-> db, raised |-> TRUE, row |-> row ]
    ELSE [ db |-> Append(SubSeq(db, 1, Len(db) - 1), row),
           raised |-> FALSE, row |-> row ])

\* db.add(new_return); db.commit(); db.refresh(new_return), or rollback and
\* ValueError.  One atomic step of the database
insert_return(db, request) ==
  Bind(NewReturn(request, Len(db) + 1), LAMBDA row :
    IF ViolatesUnique(db, row)
    THEN [ db |-> db, raised |-> TRUE, row |-> row ]
    ELSE [ db |-> Append(db, row), raised |-> FALSE, row |-> row ])

\* ------------------------------------------------------------------------
\* Coordinator._extract_fields
\* ------------------------------------------------------------------------
ExtractProduct(text, p) ==
  IF ~Falsy("product_name", p.product_name) THEN p
  ELSE IF Facts(text).product # None
       THEN [p EXCEPT !.product_name = Some(Strip(Val(Facts(text).product)))]
  ELSE IF Facts(text).words <= 4
       THEN [p EXCEPT !.product_name = Some(Strip(text))]
  ELSE p

ExtractStore(text, p) ==
  IF ~Falsy("store_name", p.store_name) THEN p
  ELSE IF Facts(text).store # None
       THEN [p EXCEPT !.store_name = Some(Strip(Val(Facts(text).store)))]
  ELSE IF /\ ~Falsy("product_name", p.product_name)
          /\ Facts(text).words <= 5
          /\ ~Facts(text).blocked
       THEN [p EXCEPT !.store_name = Some(Strip(text))]
  ELSE p

ExtractReason(text, p) ==
  IF Falsy("reason_raw", p.reason_raw) /\ Facts(text).defect
  THEN [p EXCEPT !.reason_raw = Some(Strip(text))]
  ELSE p

\* a price step that stores the amount and leaves the currency for later:
\* a variant the properties must tell from the code's pair of assignments
ExtractPrice_amount_only(text, p) ==
  IF (Falsy("price", p.price) \/ Falsy("currency", p.currency))
       /\ Facts(text).price # None
  THEN [p EXCEPT !.price = Some(Val(Facts(text).price).price)]
  ELSE p

ExtractPrice(text, p) ==
  IF (Falsy("price", p.price) \/ Falsy("currency", p.currency))
       /\ Facts(text).price # None
  THEN [p EXCEPT !.price = Some(Val(Facts(text).price).price),
                 !.currency = Some(Upper(Val(Facts(text).price).currency))]
  ELSE p

\* the purchase-date step raises ValueError when strptime refuses the token
PurchaseDateRaises(text, p) ==
  /\ Falsy("purchase_date", p.purchase_date)
  /\ ~Facts(text).last_week
  /\ Facts(text).date # None
  /\ Strptime(Val(Facts(text).date)) = None

ExtractPurchaseDate(text, p) ==
  IF ~Falsy("purchase_date", p.purchase_date) THEN p
  ELSE IF Facts(text).last_week
       THEN [p EXCEPT !.purchase_date = Some(Today - 7)]
  ELSE IF Facts(text).date # None /\ Strptime(Val(Facts(text).date)) # None
       THEN [p EXCEPT !.purchase_date = Strptime(Val(Facts(text).date))]
  ELSE p

ExtractReturnDate(text, p) ==
  IF Falsy("return_date", p.return_date) /\ Facts(text).today
  THEN [p EXCEPT !.return_date = Some(Today)]
  ELSE p

\* the whole of _extract_fields on state.pending_return, which it updates in
\* place: when the date step raises, the fields set before it stay set and
\* the return-date step is not reached
extract_fields(text, pending) ==
  Bind(ExtractProduct(text, pending), LAMBDA p1 :
    Bind(ExtractStore(text, p1), LAMBDA p2 :
      Bind(ExtractReason(text, p2), LAMBDA p3 :
        Bind(ExtractPrice(text, p3), LAMBDA p4 :
          IF PurchaseDateRaises(text, p4)
          THEN [ pending |-> p4, raised |-> TRUE ]
          ELSE Bind(ExtractPurchaseDate(text, p4), LAMBDA p5 :
                 [ pending |-> ExtractReturnDate(text, p5),
                   raised |-> FALSE ])))))

\* ------------------------------------------------------------------------
\* Coordinator._missing_fields and _ask_next
\* ------------------------------------------------------------------------
Required ==
  << "product_name", "store_name", "purchase_date", "reason_raw",
     "price", "currency" >>

missing_fields(state) ==
  SelectSeq(Required, LAMBDA k : Falsy(k, state.pending_return[k]))

InSeq(x, s) == \E i \in 1..Len(s) : s[i] = x

\* the prompts with the purchase date asked before the store: a variant
\* the properties must tell from the code's order
ask_next_date_first(missing) ==
  IF InSeq("product_name", missing) THEN "What product are you returning?"
  ELSE IF InSeq("purchase_date", missing)
       THEN "When did you purchase it? (YYYY-MM-DD or 'last week')"
  ELSE IF InSeq("store_name", missing) THEN "Which store did you buy it from?"
  ELSE IF InSeq("return_date", missing) THEN "When is the return date?"
  ELSE IF InSeq("reason_raw", missing) THEN "What is the reason for return?"
  ELSE IF InSeq("price", missing) \/ InSeq("currency", missing)
       THEN "What was the price and currency?"
  ELSE "Please provide the missing details."

ask_next(missing) ==
  IF InSeq("product_name", missing) THEN "What product are you returning?"
  ELSE IF InSeq("store_name", missing) THEN "Which store did you buy it from?"
  ELSE IF InSeq("purchase_date", missing)
       THEN "When did you purchase it? (YYYY-MM-DD or 'last week')"
  ELSE IF InSeq("return_date", missing) THEN "When is the return date?"
  ELSE IF InSeq("reason_raw", missing) THEN "What is the reason for return?"
  ELSE IF InSeq("price", missing) \/ InSeq("currency", missing)
       THEN "What was the price and currency?"
  ELSE "Please provide the missing details."

\* ------------------------------------------------------------------------
\* Forecaster: ForecastingAgent
\* ------------------------------------------------------------------------
RECURSIVE SortedSeq(_)
SortedSeq(S) ==
  IF S = {} THEN <<>>
  ELSE LET lo == CHOOSE x \in S : \A y \in S : x <= y
       IN  <<lo>> \o SortedSeq(S \ {lo})

RECURSIVE SumSeq(_)
SumSeq(s) == IF s = <<>> THEN 0 ELSE s[1] + SumSeq(Tail(s))

\* ForecastingAgent._load_daily_series: one row per distinct return_date,
\* with the number of returns of that day, sorted by date
load_daily_series(db) ==
  Bind(SortedSeq({ db[i].return_date : i \in 1..Len(db) }), LAMBDA days :
    [ k \in 1..Len(days) |->
        [ date |-> days[k],
          count |-> Cardinality({ i \in 1..Len(db) :
                                    db[i].return_date = days[k] }) ] ])

\* a forecast that averages the whole series: a variant the properties must
\* tell from the code's trailing window
forecast_whole_series(db, horizon_days) ==
  Bind(load_daily_series(db), LAMBDA df :
    IF df = <<>>
    THEN [ raised |-> TRUE, predictions |-> <<>>, metric_value |-> <<0, 1>> ]
    ELSE Bind(Len(df), LAMBDA window :
      Bind([ k \in 1..window |-> df[k].count ], LAMBDA tail :
        Bind(SumSeq(tail), LAMBDA total :
          [ raised |-> FALSE,
            predictions |->
              [ i \in 1..horizon_days |->
                  [ date |-> df[Len(df)].date + i,
                    predicted_value |-> <<total, window>> ] ],
            metric_value |->
              << SumSeq([ k \in 1..window |-> Abs(window * tail[k] - total) ]),
                 window * window >> ]))))

\* a forecast that divides the sum of the window by 7 however short the
\* series is: a variant the properties must tell from the code's mean
forecast_divides_by_seven(db, horizon_days) ==
  Bind(load_daily_series(db), LAMBDA df :
    IF df = <<>>
    THEN [ raised |-> TRUE, predictions |-> <<>>, metric_value |-> <<0, 1>> ]
    ELSE Bind(Min(7, Len(df)), LAMBDA window :
      Bind([ k \in 1..window |-> df[Len(df) - window + k].count ], LAMBDA tail :
        Bind(SumSeq(tail), LAMBDA total :
          [ raised |-> FALSE,
            predictions |->
              [ i \in 1..horizon_days |->
                  [ date |-> df[Len(df)].date + i,
                    predicted_value |-> <<total, 7>> ] ],
            metric_value |->
              << SumSeq([ k \in 1..window |-> Abs(7 * tail[k] - total) ]),
                 7 * window >> ]))))

\* ForecastingAgent.forecast: raised (ValueError) on an empty series; else
\* the predictions and the backtest MAE.  The mean and the MAE are exact
\* fractions <<numerator, denominator>>
forecast(db, horizon_days) ==
  Bind(load_daily_series(db), LAMBDA df :
    IF df = <<>>
    THEN [ raised |-> TRUE, predictions |-> <<>>, metric_value |-> <<0, 1>> ]
    ELSE Bind(Min(7, Len(df)), LAMBDA window :
      Bind([ k \in 1..window |-> df[Len(df) - window + k].count ], LAMBDA tail :
        Bind(SumSeq(tail), LAMBDA total :
          [ raised |-> FALSE,
            predictions |->
              [ i \in 1..horizon_days |->
                  [ date |-> df[Len(df)].date + i,
                    predicted_value |-> <<total, window>> ] ],
            metric_value |->
              << SumSeq([ k \in 1..window |-> Abs(window * tail[k] - total) ]),
                 window * window >> ]))))

\* ------------------------------------------------------------------------
\* Aggregator: ReportAgent
\* ------------------------------------------------------------------------
RECURSIVE NormFloat(_)
NormFloat(p) ==
  IF p.e > 0 /\ p.m % 10 = 0 THEN NormFloat([m |-> p.m \div 10, e |-> p.e - 1])
  ELSE p

\* float addition of two short decimals
AddFloat(a, b) ==
  LET e == Max(a.e, b.e)
  IN  NormFloat([ m |-> a.m * Pow10(e - a.e) + b.m * Pow10(e - b.e), e |-> e ])

ZeroFloat == [m |-> 0, e |-> 0]

RECURSIVE SumPrices(_)
SumPrices(rows) ==
  IF rows = <<>> THEN ZeroFloat ELSE AddFloat(rows[1].price, SumPrices(Tail(rows)))

\* ReportAgent._resolve_date_range
resolve_date_range(start, end) ==
  LET e == IF end = None THEN Today ELSE Val(end)
      s == IF start = None THEN e - 13 ELSE Val(start)
  IN  [ start_date |-> s, end_date |-> e ]

\* ReportAgent._aggregate_window: count and sum of price over the rows whose
\* return_date lies in [start_date, end_date], optionally filtered by a
\* case-insensitive substring of the product name
aggregate_window(db, start_date, end_date, product_name) ==
  Bind(SelectSeq(db, LAMBDA r :
         /\ r.return_date >= start_date
         /\ r.return_date <= end_date
         /\ (Falsy("product_name", product_name)
               \/ Contains(Lower(r.product_name), Lower(Val(product_name))))),
       LAMBDA hit : [ count |-> Len(hit), sum |-> SumPrices(hit) ])

\* a trend that takes an empty previous window for no change: a variant
\* the properties must tell from the code's comparisons
compute_trend_empty_is_flat(current, previous) ==
  IF previous = 0 THEN "flat"
  ELSE IF current > previous THEN "increasing"
  ELSE IF current < previous THEN "decreasing"
  ELSE "flat"

\* ReportAgent._compute_trend
compute_trend(current, previous) ==
  IF previous = 0 /\ current = 0 THEN "flat"
  ELSE IF previous = 0 /\ current > 0 THEN "increasing"
  ELSE IF current > previous THEN "increasing"
  ELSE IF current < previous THEN "decreasing"
  ELSE "flat"

\* a report whose comparison window ends on the first day of the current
\* one: a variant the properties must tell from the code's windows
generate_report_overlapping(db, product_name, start, end) ==
  Bind(resolve_date_range(start, end), LAMBDA range :
    Bind(aggregate_window(db, range.start_date, range.end_date, product_name),
         LAMBDA cur :
      LET window_days == (range.end_date - range.start_date) + 1
          prev_end    == range.start_date
          prev_start  == prev_end - (window_days - 1)
      IN  Bind(aggregate_window(db, prev_start, prev_end, product_name),
               LAMBDA prev :
            [ total_returns |-> cur.count,
              total_loss |-> cur.sum,
              trend |-> compute_trend(cur.count, prev.count),
              start_date |-> range.start_date,
              end_date |-> range.end_date,
              prev_start |-> prev_start,
              prev_end |-> prev_end,
              prev_returns |-> prev.count ])))

\* ReportAgent.generate_report (the Excel file it writes is not part of the
\* state)
generate_report(db, product_name, start, end) ==
  Bind(resolve_date_range(start, end), LAMBDA range :
    Bind(aggregate_window(db, range.start_date, range.end_date, product_name),
         LAMBDA cur :
      LET window_days == (range.end_date - range.start_date) + 1
          prev_end    == range.start_date - 1
          prev_start  == prev_end - (window_days - 1)
      IN  Bind(aggregate_window(db, prev_start, prev_end, product_name),
               LAMBDA prev :
            [ total_returns |-> cur.count,
              total_loss |-> cur.sum,
              trend |-> compute_trend(cur.count, prev.count),
              start_date |-> range.start_date,
              end_date |-> range.end_date,
              prev_start |-> prev_start,
              prev_end |-> prev_end,
              prev_returns |-> prev.count ])))

\* ------------------------------------------------------------------------
\* Semantic Index: RAGRetriever
\* ------------------------------------------------------------------------
\* RAGRetriever.__init__: no index, no records
NewRetriever == [ index |-> None, records |-> <<>> ]

\* RAGRetriever.build_index: records is replaced by the rows of the table;
\* with no row the method returns before an index is created.  The index is
\* the number of vectors it holds
build_index(rag, db) ==
  IF db = <<>> THEN [ rag EXCEPT !.records = <<>> ]
  ELSE [ index |-> Some(Len(db)), records |-> db ]

\* the orders in which an index over n vectors can rank them by distance
\* to a query: the embedding model decides, any order is possible
Rankings(n) ==
  { f \in [1..n -> 1..n] : \A i, j \in 1..n : f[i] = f[j] => i = j }

\* faiss IndexFlatL2.search(query, top_k): the min(top_k, n) nearest vector
\* numbers (0-based), nearest first, padded with -1 up to top_k
index_search(n, ranking, top_k) ==
  [ i \in 1..top_k |-> IF i <= n THEN ranking[i] - 1 ELSE -1 ]

\* self.records[idx]: a negative idx counts from the end of the list
ListGet(records, idx) ==
  IF idx >= 0 THEN records[idx + 1] ELSE records[Len(records) + idx + 1]

\* the message of the RuntimeError of retrieve
IndexNotBuilt == "RAG index not built. Call build_index() first."

\* RAGRetriever.retrieve: raised (RuntimeError) when no index was built
retrieve(rag, ranking, top_k) ==
  IF rag.index = None
  THEN [ raised |-> TRUE, results |-> <<>> ]
  ELSE LET indices == index_search(Val(rag.index), ranking, top_k)
       IN  [ raised |-> FALSE,
             results |-> [ i \in 1..top_k |->
                 LET record == ListGet(rag.records, indices[i])
                 IN  [ content |-> record.reason_raw, id |-> record.id ] ] ]

\* ------------------------------------------------------------------------
\* Bulk loader: CSVIngestor
\* ------------------------------------------------------------------------
IsIsoShape(v) ==
  /\ Len(v) = 10
  /\ \A i \in {1, 2, 3, 4, 6, 7, 9, 10} : IsDigit(v[i])
  /\ v[5] = "-" /\ v[8] = "-"

\* CSVIngestor._parse_date: Some(date), or None where strptime raises
parse_date(v) == IF IsIsoShape(v) THEN Strptime(v) ELSE None

\* float(v) on a plain decimal literal: Some(float), or None where it raises
FloatOf(v) ==
  LET n1 == RunLen(v, 1, "digit")
      n2 == IF n1 + 1 <= Len(v) /\ v[n1 + 1] = "." THEN RunLen(v, n1 + 2, "digit")
            ELSE 0
  IN  IF n1 > 0 /\ n1 = Len(v) THEN Some(ParseFloat(v, <<>>))
      ELSE IF n1 > 0 /\ n2 > 0 /\ n1 + 1 + n2 = Len(v)
      THEN Some(ParseFloat(SubSeq(v, 1, n1), SubSeq(v, n1 + 2, Len(v))))
      ELSE None

\* row.get(k): the cell, or None when the file has no such column (an empty
\* cell stands for it here)
Cell(v) == IF v = <<>> THEN None ELSE Some(v)

\* the try block of the loop up to the request: None when a conversion
\* raises, else the InsertReturnRequest
RowRequest(row) ==
  Bind(<< parse_date(row.purchase_date), parse_date(row.return_date),
          FloatOf(row.price),
          IF row.discount_pct = <<>> THEN Some(None)
          ELSE IF FloatOf(row.discount_pct) = None THEN None
          ELSE Some(FloatOf(row.discount_pct)) >>, LAMBDA v :
    IF v[1] = None \/ v[2] = None \/ v[3] = None \/ v[4] = None THEN None
    ELSE Some([ product_name |-> row.product_name,
                product_category |-> Cell(row.product_category),
                store_name |-> row.store_name,
                city |-> Cell(row.city),
                country |-> Cell(row.country),
                purchase_date |-> Val(v[1]),
                return_date |-> Val(v[2]),
                reason_raw |-> row.reason,
                price |-> Val(v[3]),
                currency |-> row.currency,
                discount_pct |-> Val(v[4]) ]))

\* CSVIngestor.ingest: the loop over the rows, in order; a row whose
\* conversion or insert raises is skipped.  log keeps, per row, what
\* happened to it
RECURSIVE ingest_rows(_, _, _, _)
ingest_rows(db, rows, inserted, log) ==
  IF rows = <<>> THEN [ db |-> db, inserted |-> inserted, log |-> log ]
  ELSE Bind(RowRequest(rows[1]), LAMBDA req :
         IF req = None
         THEN ingest_rows(db, Tail(rows), inserted, Append(log, "malformed"))
         ELSE Bind(insert_return(db, Val(req)), LAMBDA ins :
                IF ins.raised
                THEN ingest_rows(ins.db, Tail(rows), inserted,
                                 Append(log, "duplicate"))
                ELSE ingest_rows(ins.db, Tail(rows), inserted + 1,
                                 Append(log, "inserted"))))

\* a loader that gives up after the first row of the file: a variant the
\* properties must tell from the code's loop
ingest_gives_up(db, rows) ==
  Bind(ingest_rows(db, SubSeq(rows, 1, Min(1, Len(rows))), 0, <<>>), LAMBDA res :
    [ res EXCEPT !.log = res.log \o [ i \in 1..(Len(rows) - 1) |-> "not attempted" ] ])

ingest(db, rows) == ingest_rows(db, rows, 0, <<>>)

\* ------------------------------------------------------------------------
\* Coordinator: the handlers.  A handler gives the reply (a template and the
\* values formatted into it), the state object as the call leaves it, the
\* table, the retriever, the exception that escapes ("" when the call
\* returns), and what it did on the way
\* ------------------------------------------------------------------------
Reply(text, args) == [ text |-> text, args |-> args ]

Outcome(reply, state, db, rag, raised, handler, calls, submitted) ==
  [ reply |-> reply, state |-> state, db |-> db, rag |-> rag,
    raised |-> raised, handler |-> handler, calls |-> calls,
    submitted |-> submitted ]

\* a reset that forgets the mode: a variant the properties must tell from
\* the code's reset
ResetState_keep_mode(state) ==
  [ state EXCEPT !.pending_return = [ k \in DOMAIN state.pending_return |-> None ] ]

\* state.pending_return = {k: None for k in state.pending_return};
\* state.mode = None
ResetState(state) ==
  [ pending_return |-> [ k \in DOMAIN state.pending_return |-> None ],
    mode |-> NoMode ]

ConfirmationTemplate ==
  "Return recorded: {product_name} from {store_name} ({price} {currency}). Return ID: {return_id}"

\* str(e) of the pydantic ValidationError; the arguments are the fields it
\* reports
ValidationErrorText == "validation error for InsertReturnRequest"

ConfirmationReply(row) ==
  Reply(ConfirmationTemplate,
        << row.product_name, row.store_name, FormatFloat(row.price),
           row.currency, row.id >>)

\* a try block whose duplicate error is not caught: a variant the
\* properties must tell from the code's except clause
after_insert_escapes(state, rag, ins0) ==
  Bind(ins0, LAMBDA ins :
    IF ins.raised
    THEN Outcome(Reply(DuplicateMessage, <<>>), state, ins.db, rag,
                 "ValueError", "insert_flow", {"insert_return"}, TRUE)
    ELSE Outcome(ConfirmationReply(ins.row), ResetState(state), ins.db, rag,
                 "", "insert_flow", {"insert_return"}, TRUE))

\* the try block of _handle_insert_flow once insert_return has answered
\* (ins): the confirmation, or the text of the ValueError; both reset
after_insert(state, rag, ins0) ==
  Bind(ins0, LAMBDA ins :
    IF ins.raised
    THEN Outcome(Reply(DuplicateMessage, <<>>), ResetState(state), ins.db, rag,
                 "", "insert_flow", {"insert_return"}, TRUE)
    ELSE Outcome(ConfirmationReply(ins.row), ResetState(state), ins.db, rag,
                 "", "insert_flow", {"insert_return"}, TRUE))

\* the fields are complete and the request validates: the turn reaches
\* retrieval_agent.insert_return
ReachesInsert(text, state) ==
  Bind(extract_fields(text, state.pending_return), LAMBDA ex :
    /\ ~ex.raised
    /\ missing_fields([ state EXCEPT !.pending_return = ex.pending ]) = <<>>
    /\ InsertReturnRequest(ex.pending).ok)

\* Coordinator._handle_insert_flow
handle_insert_flow(text, state, db, rag) ==
  Bind(extract_fields(text, state.pending_return), LAMBDA ex :
    Bind([ state EXCEPT !.pending_return = ex.pending ], LAMBDA st :
      Bind(missing_fields(st), LAMBDA missing :
        IF ex.raised
        THEN Outcome(Reply("ValueError: strptime", <<>>), st, db, rag,
                     "ValueError", "insert_flow", {}, FALSE)
        ELSE IF missing # <<>>
        THEN Outcome(Reply(ask_next(missing), <<>>), st, db, rag,
                     "", "insert_flow", {}, FALSE)
        ELSE Bind(InsertReturnRequest(st.pending_return), LAMBDA req :
               IF ~req.ok
               THEN Outcome(Reply(ValidationErrorText, req.errors),
                            ResetState(st), db, rag, "", "insert_flow", {}, TRUE)
               ELSE after_insert(st, rag, insert_return(db, req.data))))))

\* Coordinator._handle_analytics
handle_analytics(text, state, db, rag) ==
  Bind(generate_report(db, None, None, None), LAMBDA resp :
    Outcome(Reply("Returns: {total_returns} Loss: {total_loss} Trend: {trend}",
                  << resp.total_returns, FormatFloat(resp.total_loss), resp.trend >>),
            [ state EXCEPT !.mode = NoMode ], db, rag,
            "", "analytics", {"generate_report"}, FALSE))

\* Coordinator._handle_forecast
handle_forecast(text, state, db, rag) ==
  Bind(forecast(db, 14), LAMBDA resp :
    IF resp.raised
    THEN Outcome(Reply("Not enough data to generate forecast.", <<>>),
                 state, db, rag, "ValueError", "forecast", {"forecast"}, FALSE)
    ELSE Outcome(Reply("Forecast ({model_used}) MAE: {metric_value}",
                       << "7-day moving average", resp.metric_value >>),
                 [ state EXCEPT !.mode = NoMode ], db, rag,
                 "", "forecast", {"forecast"}, FALSE))

\* Coordinator._handle_rag; ranking is the order the index ranks its
\* vectors in for this query
handle_rag(text, state, db, rag, ranking) ==
  Bind(build_index(rag, db), LAMBDA built :
    Bind(retrieve(built, ranking, 3), LAMBDA res :
      IF res.raised
      THEN Outcome(Reply(IndexNotBuilt, <<>>),
                   state, db, built, "RuntimeError", "rag",
                   {"build_index", "retrieve"}, FALSE)
      ELSE IF res.results = <<>>
      THEN Outcome(Reply("No relevant returns found.", <<>>),
                   [ state EXCEPT !.mode = NoMode ], db, built,
                   "", "rag", {"build_index", "retrieve"}, FALSE)
      ELSE Outcome(Reply("- {content}", [ i \in 1..Len(res.results) |->
                                            res.results[i].content ]),
                   [ state EXCEPT !.mode = NoMode ], db, built,
                   "", "rag", {"build_index", "retrieve"}, FALSE)))

\* _classify_intent of every message, computed once
IntentTable == [ m \in Texts |-> classify_intent(m) ]

IntentOf(text) == IntentTable[text]

StripTable == [ m \in AllMessages |-> Strip(m) ]

\* text = user_text.strip()
Stripped(m) == StripTable[m]

\* a head that classifies every message: a variant the properties must
\* tell from the code's head
Route_always_classify(text, state) ==
  [ intent |-> IntentOf(text), classified |-> TRUE ]

\* the head of handle_message: the flow the turn goes to, and whether
\* _classify_intent ran to find it
Route(text, state) ==
  IF state.mode = "insert_return"
  THEN [ intent |-> "insert_return", classified |-> FALSE ]
  ELSE [ intent |-> IntentOf(text), classified |-> TRUE ]

\* state.mode = intent, on the classified path only
Dispatched(text, state) ==
  Bind(Route(text, state), LAMBDA route :
    IF route.classified THEN [ state EXCEPT !.mode = route.intent ] ELSE state)

\* Coordinator.handle_message
handle_message(user_text, state, db, rag, ranking) ==
  Bind(Stripped(user_text), LAMBDA text :
    Bind(Route(text, state).intent, LAMBDA intent :
      Bind(Dispatched(text, state), LAMBDA st :
        IF intent = "forecast" THEN handle_forecast(text, st, db, rag)
        ELSE IF intent = "analytics" THEN handle_analytics(text, st, db, rag)
        ELSE IF intent = "insert_return" THEN handle_insert_flow(text, st, db, rag)
        ELSE handle_rag(text, st, db, rag, ranking))))

\* ------------------------------------------------------------------------
\* Bounds and inputs
\* ------------------------------------------------------------------------
\* the table holds at most MaxRows rows while one session talks
MaxRows == 1

\* and at most MaxStoreRows rows while two sessions and the loader write
MaxStoreRows == 3

\* the counts of returns of a window that _compute_trend is called with
MaxCount == 9

\* the histories the forecast is called on: returns on the MaxDays days
\* before today, up to MaxPerDay a day, and horizons up to MaxHorizon days
MaxDays == 8

MaxPerDay == 2

MaxHorizon == 2

\* the reports: explicit dates among the last MaxWindow days, tables of up
\* to MaxReportRows returns
MaxWindow == 3

MaxReportRows == 2

\* the rows db.query(Return.return_date).all() gives for a table with
\* counts[k] returns on the k-th of those days, newest first
RECURSIVE HistoryFrom(_, _)
HistoryFrom(counts, k) ==
  IF k = 0 THEN <<>>
  ELSE [ i \in 1..counts[k] |-> [ return_date |-> Today - MaxDays + k - 1 ] ]
         \o HistoryFrom(counts, k - 1)

\* old returns on the first day, new on the last, and mid on each day
\* between them that is not in quiet
DayCounts(old, mid, new, quiet) ==
  [ k \in 1..MaxDays |->
      IF k = 1 THEN old
      ELSE IF k = MaxDays THEN new
      ELSE IF k \in quiet THEN 0 ELSE mid ]

Histories ==
  { HistoryFrom(DayCounts(old, mid, new, quiet), MaxDays) :
      old \in 0..MaxPerDay, mid \in 1..MaxPerDay, new \in 0..MaxPerDay,
      quiet \in SUBSET (2..(MaxDays - 1)) }

\* tables of at most n returns in the order of their return dates, on the
\* days around the windows a report of the last MaxWindow days compares:
\* the days of two longest explicit windows and the borders of the default
\* ones.
\* A return on an even day is a tv, on an odd day an iPhone
RECURSIVE ReportTables(_)
ReportTables(n) ==
  IF n = 0 THEN { <<>> }
  ELSE LET days == ((Today - 2 * MaxWindow)..Today)
                     \cup { Today - 28, Today - 27, Today - 14, Today - 13 }
           row(d) == [ return_date |-> d,
                       product_name |-> IF d % 2 = 0 THEN <<"t","v">>
                                        ELSE <<"i","P","h","o","n","e">>,
                       price |-> [ m |-> 5 + (d % 3), e |-> 1 ] ]
       IN  ReportTables(n - 1) \cup
           UNION { { Append(t, row(d)) :
                       d \in { x \in days :
                                t = <<>> \/ x >= t[Len(t)].return_date } } :
                   t \in { u \in ReportTables(n - 1) : Len(u) = n - 1 } }

\* the pending fields at the stages of a collection: each of product, store,
\* purchase date and reason is known or not yet
Pendings ==
  { [ EmptyPending EXCEPT !.product_name = product, !.store_name = store_,
                          !.purchase_date = purchase, !.reason_raw = reason ] :
      product \in { None, Some(<<"i","P","h","o","n","e">>) },
      store_ \in { None, Some(MsgTarget) },
      purchase \in { None, Some(ToOrdinal(2025, 1, 1)) },
      reason \in { None, Some(MsgNotWorking) } }

Sessions == { "A", "B" }

\* the CSV files the loader is run on: the rows as the DictReader gives them
CsvRow(product, store_, purchase, ret, reason, price, currency) ==
  [ product_name |-> product, product_category |-> <<>>, store_name |-> store_,
    city |-> <<>>, country |-> <<>>, purchase_date |-> purchase,
    return_date |-> ret, reason |-> reason, price |-> price,
    currency |-> currency, discount_pct |-> <<>> ]

\* two rows whose product and store differ but join to the same key text
CsvBars ==
  << CsvRow(<<"a","|","b">>, <<"c">>, <<"2","0","2","5","-","0","1","-","0","1">>, <<"2","0","2","5","-","0","1","-","1","0">>, <<"b","r","o","k","e","n">>, <<"5","0">>, <<"U","S","D">>),
     CsvRow(<<"a">>, <<"b","|","c">>, <<"2","0","2","5","-","0","1","-","0","1">>, <<"2","0","2","5","-","0","1","-","1","0">>, <<"b","r","o","k","e","n">>, <<"5","0">>, <<"U","S","D">>) >>

\* a malformed row, a good row, the same return again
CsvMixed ==
  << CsvRow(<<"t","v">>, <<"T","a","r","g","e","t">>, <<"2","0","2","5","-","0","1","-","0","1">>, <<"2","0","2","5","-","0","1","-","1","0">>, <<"b","r","o","k","e","n">>, <<"n","/","a">>, <<"U","S","D">>),
     CsvRow(<<"t","v">>, <<"T","a","r","g","e","t">>, <<"2","0","2","5","-","0","1","-","0","1">>, <<"2","0","2","5","-","0","1","-","1","0">>, <<"b","r","o","k","e","n">>, <<"5","0",".","0">>, <<"U","S","D">>),
     CsvRow(<<"t","v">>, <<"T","a","r","g","e","t">>, <<"2","0","2","5","-","0","1","-","0","1">>, <<"2","0","2","5","-","0","1","-","1","2">>, <<"d","e","f","e","c","t","i","v","e">>, <<"5","0">>, <<"U","S","D">>) >>

CsvFiles == { CsvBars, CsvMixed }

\* ------------------------------------------------------------------------
\* State
\* ------------------------------------------------------------------------
VARIABLES
  sessions,   \* the ConversationState each caller holds
  dicts,      \* which dict object each state's pending_return is
  store,      \* the returns table, in insertion order
  writers,    \* who inserted each row of the table (a session or "csv")
  rag,        \* Coordinator.rag: the retriever's index and records
  rebuilt,    \* build_index() has been called on the retriever
  inflight,   \* per session, the insert whose commit is still to come
  last,       \* what the last operation was and what it answered
  given,      \* the arguments of a method that is called on its own
  returned    \* what that call returned, None before the call

vars ==
  << sessions, dicts, store, writers, rag, rebuilt, inflight, last,
     given, returned >>

NoTurn ==
  [ kind |-> "init", session |-> "", text |-> <<>>, mode_before |-> NoMode,
    pending_before |-> EmptyPending, mode_at_dispatch |-> NoMode,
    reply |-> Reply("", <<>>), raised |-> "", handler |-> "",
    classified |-> FALSE, calls |-> {}, submitted |-> FALSE,
    rows_before |-> 0, requests |-> <<>>, free_at_begin |-> FALSE,
    inserted |-> 0,
    sessions_before |-> [ s \in Sessions |-> ConversationState ] ]

\* one dict object handed to every state, as a mutable default would be: a
\* variant the properties must tell from the code's default_factory and
\* dict comprehension
NewDict_shared(used) == Cardinality({ used })

\* the dict a dict display or comprehension creates while the dicts in
\* used are alive: a new object, none of those
NewDict(used) ==
  CHOOSE i \in 1..(Cardinality(used) + 1) :
    i \notin used /\ \A j \in 1..(i - 1) : j \in used

\* the objects as their constructors leave them
Constructed ==
  /\ sessions = [ s \in Sessions |-> ConversationState ]
  /\ dicts = [ s \in Sessions |->
                IF s = "A" THEN NewDict({}) ELSE NewDict({ NewDict({}) }) ]
  /\ store = <<>>
  /\ writers = <<>>
  /\ rag = NewRetriever
  /\ rebuilt = FALSE
  /\ inflight = [ s \in Sessions |-> None ]
  /\ last = NoTurn

Init ==
  /\ Constructed
  /\ given = None
  /\ returned = None

\* what a turn leaves in last
TurnRecord(s, m, out) ==
  [ NoTurn EXCEPT
      !.kind = "turn", !.session = s, !.text = m,
      !.mode_before = sessions[s].mode,
      !.pending_before = sessions[s].pending_return,
      !.mode_at_dispatch = Dispatched(Stripped(m), sessions[s]).mode,
      !.reply = out.reply, !.raised = out.raised, !.handler = out.handler,
      !.classified = Route(Stripped(m), sessions[s]).classified,
      !.calls = out.calls, !.submitted = out.submitted,
      !.rows_before = Len(store) ]

\* the rankings the index can answer with once it is rebuilt over db
RankingsFor(db) == IF db = <<>> THEN { <<>> } ELSE Rankings(Len(db))

\* the rows a call added are written down with their writer
Written(db, who) ==
  writers \o [ i \in 1..(Len(db) - Len(store)) |-> who ]

\* the state object as _extract_fields leaves it when the turn goes on to
\* insert_return
Extracted(m, state) ==
  Bind(Dispatched(Stripped(m), state), LAMBDA st :
    [ st EXCEPT !.pending_return =
                   extract_fields(Stripped(m), st.pending_return).pending ])

\* the states after a call on the state of session s that leaves it as
\* state and leaves the dict it was called with holding old_dict: a state
\* that holds the same dict object sees what was written into it
Aliased(s, state, old_dict) ==
  [ t \in Sessions |->
      IF t = s THEN state
      ELSE IF dicts[t] = dicts[s]
           THEN [ sessions[t] EXCEPT !.pending_return = old_dict ]
           ELSE sessions[t] ]

\* state.pending_return = {k: None for k in state.pending_return} binds
\* the state of session s to a new dict
Rebound(s, reset) ==
  IF reset
  THEN [ dicts EXCEPT ![s] = NewDict({ dicts[t] : t \in Sessions \ {s} }) ]
  ELSE dicts

\* the effect of one whole call of coord.handle_message(m, state) by the
\* caller of session s, from the call to its return (or to the exception
\* that escapes it)
WholeTurn(s, m, bound) ==
  \E ranking \in RankingsFor(store) :
    \E out \in { handle_message(m, sessions[s], store, rag, ranking) } :
      /\ Len(out.db) <= bound
      /\ sessions' = Aliased(s, out.state,
                              IF out.submitted
                              THEN Extracted(m, sessions[s]).pending_return
                              ELSE out.state.pending_return)
      /\ dicts' = Rebound(s, out.submitted)
      /\ store' = out.db
      /\ writers' = Written(out.db, s)
      /\ rag' = out.rag
      /\ rebuilt' = (rebuilt \/ "build_index" \in out.calls)
      /\ last' = [ TurnRecord(s, m, out) EXCEPT !.sessions_before = sessions ]
      /\ UNCHANGED << given, returned >>

\* one session talking to the coordinator
Turn(s, m) ==
  /\ WholeTurn(s, m, MaxRows)
  /\ UNCHANGED inflight

\* a call of a session while other writers fill the table
Call(s, m) ==
  /\ WholeTurn(s, m, MaxStoreRows)
  /\ UNCHANGED inflight

\* the turn of session s goes to the insert flow and reaches insert_return
GoesToInsert(s, m) ==
  /\ Route(Stripped(m), sessions[s]).intent = "insert_return"
  /\ ReachesInsert(Stripped(m), Dispatched(Stripped(m), sessions[s]))

\* a call of handle_message up to the database commit of insert_return: the
\* request is built and the row added to the session, not yet committed.
\* A call that never reaches insert_return runs to its end
Begin(s, m) ==
  /\ inflight[s] = None
  /\ IF GoesToInsert(s, m)
     THEN \E st \in { Extracted(m, sessions[s]) } :
          \E request \in { InsertReturnRequest(st.pending_return).data } :
            /\ sessions' = Aliased(s, st, st.pending_return)
            /\ inflight' = [ inflight EXCEPT ![s] =
                 Some([ request |-> request,
                        free |-> ~ViolatesUnique(store, NewReturn(request, 0)),
                        record |-> TurnRecord(s, m,
                                     [ reply |-> Reply("", <<>>), raised |-> "",
                                       handler |-> "insert_flow", calls |-> {},
                                       submitted |-> TRUE ]) ]) ]
            /\ last' = [ NoTurn EXCEPT !.kind = "begin", !.session = s, !.text = m,
                                       !.sessions_before = sessions ]
            /\ UNCHANGED << dicts, store, writers, rag, rebuilt, given, returned >>
     ELSE /\ WholeTurn(s, m, MaxStoreRows)
          /\ UNCHANGED inflight

\* db.commit() of the insert in flight, and the rest of the call: the
\* database takes or refuses the row in one step
Commit(s) ==
  /\ inflight[s] # None
  /\ \E out \in { after_insert(sessions[s], rag,
                               insert_return(store, Val(inflight[s]).request)) } :
       /\ Len(out.db) <= MaxStoreRows
       /\ sessions' = Aliased(s, out.state, sessions[s].pending_return)
       /\ dicts' = Rebound(s, TRUE)
       /\ store' = out.db
       /\ writers' = Written(out.db, s)
       /\ last' = [ Val(inflight[s]).record EXCEPT
                      !.kind = "commit", !.reply = out.reply,
                      !.calls = out.calls,
                      !.rows_before = Len(store),
                      !.requests = << Some(Val(inflight[s]).request) >>,
                      !.free_at_begin = Val(inflight[s]).free,
                      !.sessions_before = sessions ]
  /\ inflight' = [ inflight EXCEPT ![s] = None ]
  /\ UNCHANGED << rag, rebuilt, given, returned >>

\* CSVIngestor(db).ingest(path) on one of the files
Ingest(rows) ==
  /\ \E res \in { ingest(store, rows) } :
       /\ Len(res.db) <= MaxStoreRows
       /\ store' = res.db
       /\ writers' = Written(res.db, "csv")
       /\ last' = [ NoTurn EXCEPT
                      !.kind = "ingest", !.reply = Reply("log", res.log),
                      !.calls = {"insert_return"},
                      !.rows_before = Len(store),
                      !.requests = [ i \in 1..Len(rows) |-> RowRequest(rows[i]) ],
                      !.inserted = res.inserted,
                      !.sessions_before = sessions ]
  /\ UNCHANGED << sessions, dicts, rag, rebuilt, inflight, given, returned >>

\* retriever.build_index(), called on the retriever itself
BuildIndex ==
  /\ rag' = build_index(rag, store)
  /\ rebuilt' = TRUE
  /\ last' = [ NoTurn EXCEPT !.kind = "build_index", !.calls = {"build_index"},
                             !.rows_before = Len(store),
                             !.sessions_before = sessions ]
  /\ UNCHANGED << sessions, dicts, store, writers, inflight, given, returned >>

\* retriever.retrieve(RetrievalQuery(query, top_k=3)), called on the
\* retriever itself
Search ==
  /\ \E ranking \in (IF rag.index = None THEN { <<>> }
                     ELSE Rankings(Val(rag.index))) :
       \E res \in { retrieve(rag, ranking, 3) } :
         last' = [ NoTurn EXCEPT
                     !.kind = "search", !.calls = {"retrieve"},
                     !.raised = IF res.raised THEN "RuntimeError" ELSE "",
                     !.reply = Reply("results", res.results),
                     !.rows_before = Len(store),
                     !.sessions_before = sessions ]
  /\ UNCHANGED << sessions, dicts, store, writers, rag, rebuilt, inflight,
                  given, returned >>

\* the objects of the conversation are not touched by a method called on
\* its own
Apart ==
  UNCHANGED << sessions, dicts, store, writers, rag, rebuilt, inflight, last >>

\* report_agent._compute_trend(current, previous)
ComputeTrend ==
  /\ returned = None
  /\ returned' = Some(compute_trend(given.current, given.previous))
  /\ UNCHANGED given
  /\ Apart

\* forecast_agent.forecast(ForecastRequest(horizon_days=...))
Forecast ==
  /\ returned = None
  /\ returned' = Some(forecast(given.history, given.horizon_days))
  /\ UNCHANGED given
  /\ Apart

\* agent.generate_report(ReportRequest(product_name, start_date, end_date))
GenerateReport ==
  /\ returned = None
  /\ returned' = Some(generate_report(given.table, given.product_name,
                                      given.start, given.end))
  /\ UNCHANGED given
  /\ Apart

\* self._extract_fields(text, state)
ExtractFields ==
  /\ returned = None
  /\ returned' = Some(extract_fields(given.text, given.pending))
  /\ UNCHANGED given
  /\ Apart

\* ------------------------------------------------------------------------
\* Specifications
\* ------------------------------------------------------------------------
\* one caller and its conversation
Next == \E m \in Messages : Turn("A", m)

Spec == Init /\ [][Next]_vars

\* two callers whose inserts interleave at the database, the bulk loader,
\* and the retriever used on its own
StoreNext ==
  \/ \E s \in Sessions, m \in StoreMessages : Begin(s, m)
  \/ \E s \in Sessions : Commit(s)
  \/ \E rows \in CsvFiles : Ingest(rows)
  \/ BuildIndex
  \/ Search

StoreSpec == Init /\ [][StoreNext]_vars

\* one caller that uses every flow while the bulk loader runs
LedgerNext ==
  \/ \E m \in LedgerMessages : Call("A", m)
  \/ \E rows \in CsvFiles : Ingest(rows)

LedgerSpec == Init /\ [][LedgerNext]_vars

\* ReportAgent._compute_trend called on its own, on every pair of counts up
\* to MaxCount
TrendInit ==
  /\ Constructed
  /\ given \in [ current : 0..MaxCount, previous : 0..MaxCount ]
  /\ returned = None

TrendSpec == TrendInit /\ [][ComputeTrend]_vars

\* ForecastingAgent.forecast called on its own, on every history and
\* horizon of the bounds
ForecastInit ==
  /\ Constructed
  /\ given \in [ history : Histories, horizon_days : 0..MaxHorizon ]
  /\ returned = None

ForecastSpec == ForecastInit /\ [][Forecast]_vars

\* Coordinator._extract_fields called on its own, on every utterance and
\* every stage of a collection
ExtractInit ==
  /\ Constructed
  /\ given \in [ text : Utterances, pending : Pendings ]
  /\ returned = None

ExtractSpec == ExtractInit /\ [][ExtractFields]_vars

\* ReportAgent.generate_report called on its own, on every table and
\* product filter of the bounds, each date given as one of the last
\* MaxWindow days or not at all
ReportInit ==
  /\ Constructed
  /\ given \in [ table : ReportTables(MaxReportRows),
                  product_name : { None, Some(<<"t","v">>) },
                  start : { None } \cup { Some(d) : d \in (Today - MaxWindow + 1)..Today },
                  end : { None } \cup { Some(d) : d \in (Today - MaxWindow + 1)..Today } ]
  /\ returned = None

ReportSpec == ReportInit /\ [][GenerateReport]_vars

\* ------------------------------------------------------------------------
\* Properties
\* ------------------------------------------------------------------------
PendingKeys == DOMAIN EmptyPending

AllNull(pending) == \A k \in PendingKeys : pending[k] = None

\* the natural key of a request or of a row
TupleOf(r) ==
  << r.product_name, r.store_name, r.purchase_date, r.price, r.currency >>

OtherCollaborators == { "forecast", "generate_report", "build_index", "retrieve" }

\* C1: a turn that begins with mode = insert_return is handled by the
\* collection flow and _classify_intent is not run, whatever the text: no
\* forecast, report or retrieval call is made, the text is used as field
\* input (the pending fields afterwards are those _extract_fields leaves,
\* unless a submission reset them), and the mode afterwards is
\* insert_return or None.
C1_CollectionSkipsClassification ==
  (last.kind = "turn" /\ last.mode_before = "insert_return") =>
    /\ ~last.classified
    /\ last.handler = "insert_flow"
    /\ last.calls \cap OtherCollaborators = {}
    /\ sessions[last.session].mode \in { "insert_return", NoMode }
    /\ \/ last.submitted
       \/ sessions[last.session].pending_return =
            extract_fields(Stripped(last.text), last.pending_before).pending

\* a message with analytics and return keywords arrives in the middle of a
\* collection and becomes the store name
C1_Witness ==
  /\ last.kind = "turn"
  /\ last.mode_before = "insert_return"
  /\ last.text = MsgReport
  /\ classify_intent(Strip(MsgReport)) = "analytics"
  /\ last.handler = "insert_flow"
  /\ last.pending_before.store_name = None
  /\ sessions[last.session].pending_return.store_name = Some(Strip(MsgReport))
  /\ sessions[last.session].mode = "insert_return"

\* the pending fields after "I want to return my iPhone", "Target",
\* "2025-01-01", "not working"
CanonicalPending ==
  [ EmptyPending EXCEPT
      !.product_name = Some(<<"i","P","h","o","n","e">>),
      !.store_name = Some(MsgTarget),
      !.purchase_date = Some(ToOrdinal(2025, 1, 1)),
      !.reason_raw = Some(MsgNotWorking) ]

CanonicalTuple ==
  << <<"i","P","h","o","n","e">>, MsgTarget, ToOrdinal(2025, 1, 1), [m |-> 50, e |-> 0], <<"U","S","D">> >>

\* the last turn is the fifth of the conversation product, store, ISO
\* purchase date, defect reason, price, its key not being in the table
CanonicalLastTurn ==
  /\ last.kind = "turn"
  /\ last.mode_before = "insert_return"
  /\ last.pending_before = CanonicalPending
  /\ last.text = MsgPrice
  /\ \A i \in 1..last.rows_before : TupleOf(store[i]) # CanonicalTuple

\* C2: the conversation that gives the product, the store, an ISO purchase
\* date, a defect reason and then "<number> <currency>", with no return
\* date and a key not yet stored, ends with the record persisted and the
\* confirmation naming product, store, price and currency.
C2_CanonicalConversationCompletes ==
  CanonicalLastTurn =>
    /\ Len(store) = last.rows_before + 1
    /\ TupleOf(store[Len(store)]) = CanonicalTuple
    /\ last.reply = Reply(ConfirmationTemplate,
                          << <<"i","P","h","o","n","e">>, MsgTarget, <<"5","0",".","0">>, <<"U","S","D">>, Len(store) >>)

\* what the code does with that conversation: the request is refused for
\* its return_date, nothing is stored, the state is reset
C2_Witness ==
  /\ CanonicalLastTurn
  /\ last.reply = Reply(ValidationErrorText, << "return_date" >>)
  /\ Len(store) = last.rows_before
  /\ sessions[last.session] = ConversationState

SubmissionReplies ==
  { ConfirmationTemplate, DuplicateMessage, ValidationErrorText }

\* C3: after a turn in which a submission was attempted (the insert
\* succeeded, was refused as a duplicate, or the request failed validation)
\* every pending field is None and the mode is None.
C3_SubmissionResets ==
  (last.kind = "turn" /\ (last.submitted \/ last.reply.text \in SubmissionReplies)) =>
    /\ last.submitted
    /\ last.reply.text \in SubmissionReplies
    /\ AllNull(sessions[last.session].pending_return)
    /\ sessions[last.session].mode = NoMode

\* a submission refused as a duplicate, after a collection of several turns
C3_Witness ==
  /\ last.kind = "turn"
  /\ last.submitted
  /\ last.mode_before = "insert_return"
  /\ ~AllNull(last.pending_before)
  /\ last.reply.text = DuplicateMessage
  /\ last.rows_before = 1 /\ Len(store) = 1
  /\ AllNull(sessions[last.session].pending_return)
  /\ sessions[last.session].mode = NoMode

\* the k-th request of the last operation is the first insert of its tuple:
\* no row of the table before the operation and no earlier request of the
\* operation carries it
FirstOfTuple(k) ==
  /\ \A i \in 1..last.rows_before :
       TupleOf(store[i]) # TupleOf(Val(last.requests[k]))
  /\ \A j \in 1..(k - 1) :
       last.requests[j] # None =>
         TupleOf(Val(last.requests[j])) # TupleOf(Val(last.requests[k]))

\* C4: the table never holds two rows with the same fingerprint; the first
\* insert of a (product_name, store_name, purchase_date, price, currency)
\* tuple succeeds, and every later insert of the same tuple is refused as a
\* duplicate and adds no row.
C4_FirstInsertSucceedsLaterFail ==
  /\ \A i, j \in 1..Len(store) :
       store[i].dedupe_key = store[j].dedupe_key => i = j
  /\ last.kind = "commit" =>
       IF FirstOfTuple(1)
       THEN /\ Len(store) = last.rows_before + 1
            /\ TupleOf(store[Len(store)]) = TupleOf(Val(last.requests[1]))
            /\ last.reply.text = ConfirmationTemplate
       ELSE /\ Len(store) = last.rows_before
            /\ last.reply.text = DuplicateMessage
  /\ last.kind = "ingest" =>
       /\ \A k \in 1..Len(last.requests) :
            last.requests[k] # None =>
              (last.reply.args[k] = "inserted" <=> FirstOfTuple(k))
       /\ Len(store) = last.rows_before
            + Cardinality({ k \in 1..Len(last.requests) :
                              last.requests[k] # None /\ FirstOfTuple(k) })

\* the second row of the file is the first insert of its tuple and is
\* refused as a duplicate
C4_Witness ==
  /\ last.kind = "ingest"
  /\ \E k \in 1..Len(last.requests) :
       /\ last.requests[k] # None
       /\ FirstOfTuple(k)
       /\ last.reply.args[k] = "duplicate"

\* C5: within a collection flow a pending field that holds a value at the
\* end of a turn keeps that value in every later turn of the flow; it is
\* cleared only by the reset of a submission.
C5_FilledFieldsKept ==
  (last.kind = "turn" /\ last.mode_before = "insert_return" /\ ~last.submitted) =>
    \A k \in PendingKeys :
      last.pending_before[k] # None =>
        sessions[last.session].pending_return[k] = last.pending_before[k]

\* a price of 0.0 is replaced by the price of a later message
C5_Witness ==
  /\ last.kind = "turn"
  /\ last.mode_before = "insert_return"
  /\ ~last.submitted
  /\ last.pending_before.price = Some([m |-> 0, e |-> 0])
  /\ sessions[last.session].pending_return.price = Some([m |-> 50, e |-> 0])

\* C6: after every turn dispatched to analytics, forecast or retrieval the
\* session mode is None, whatever the outcome, also when the collaborator
\* fails (forecast on an empty series, search on an index not built).
C6_SingleTurnModesReset ==
  (last.kind = "turn" /\ last.handler \in { "analytics", "forecast", "rag" }) =>
    sessions[last.session].mode = NoMode

\* the forecast of an empty table raises and the caller's state keeps the
\* mode the dispatch gave it
C6_Witness ==
  /\ last.kind = "turn"
  /\ last.handler = "forecast"
  /\ last.rows_before = 0
  /\ last.raised = "ValueError"
  /\ sessions[last.session].mode = "forecast"

\* C7: a search made before any rebuild fails with the index-not-built
\* error; a search made after a rebuild over a table with no rows returns
\* an empty result list without error, so that a retrieval turn on an empty
\* table replies "No relevant returns found.".
C7_SearchProtocol ==
  /\ (last.kind = "search" /\ ~rebuilt) => last.raised = "RuntimeError"
  /\ (last.kind = "search" /\ rebuilt /\ rag.records = <<>>) =>
       /\ last.raised = ""
       /\ last.reply.args = <<>>
  /\ (last.kind = "turn" /\ last.handler = "rag" /\ last.rows_before = 0) =>
       /\ last.raised = ""
       /\ last.reply = Reply("No relevant returns found.", <<>>)

\* the index was rebuilt over no rows and the search raises
C7_Witness ==
  /\ last.kind = "search"
  /\ rebuilt
  /\ store = <<>>
  /\ rag.records = <<>>
  /\ last.raised = "RuntimeError"

\* the ordered keyword rules, applied to each message as the caller sends it
ExpectedIntent ==
  [ m \in Messages |->
      Bind(Lower(Strip(m)), LAMBDA t :
        IF \E k \in ForecastKeywords : Contains(t, k) THEN "forecast"
        ELSE IF \E k \in AnalyticsKeywords : Contains(t, k) THEN "analytics"
        ELSE IF \E k \in ReturnKeywords : Contains(t, k) THEN "insert_return"
        ELSE "rag") ]

HandlerOf ==
  [ forecast |-> "forecast", analytics |-> "analytics",
    insert_return |-> "insert_flow", rag |-> "rag" ]

\* C8: when the mode is not insert_return the intent is found by the
\* ordered keyword rules, first match wins: forecast keywords, else
\* analytics keywords, else return/refund, else retrieval; the mode is set
\* to exactly that intent before the dispatch, and the turn goes to that
\* intent's handler.
C8_OrderedKeywordRules ==
  (last.kind = "turn" /\ last.mode_before # "insert_return") =>
    /\ last.classified
    /\ last.mode_at_dispatch = ExpectedIntent[last.text]
    /\ last.handler = HandlerOf[ExpectedIntent[last.text]]

\* a text with a forecast, an analytics and a return keyword goes to the
\* forecast; one with an analytics and a return keyword to the report
C8_Witness ==
  /\ last.kind = "turn"
  /\ last.mode_before # "insert_return"
  /\ last.text = MsgForecast
  /\ Contains(MsgForecast, <<"r","e","p","o","r","t">>) /\ Contains(MsgForecast, <<"r","e","t","u","r","n">>)
  /\ Contains(MsgForecast, <<"n","e","x","t">>)
  /\ last.mode_at_dispatch = "forecast"
  /\ last.handler = "forecast"

\* the order of the prompts
AskOrder ==
  << "product_name", "store_name", "purchase_date", "return_date",
     "reason_raw", "price", "currency" >>

PromptOf ==
  [ product_name  |-> "What product are you returning?",
    store_name    |-> "Which store did you buy it from?",
    purchase_date |-> "When did you purchase it? (YYYY-MM-DD or 'last week')",
    return_date   |-> "When is the return date?",
    reason_raw    |-> "What is the reason for return?",
    price         |-> "What was the price and currency?",
    currency      |-> "What was the price and currency?" ]

\* the required fields that are still None
StillMissing(pending) ==
  { k \in { Required[i] : i \in 1..Len(Required) } : pending[k] = None }

\* the first field of AskOrder that is required and still missing
FirstMissing(pending) ==
  AskOrder[CHOOSE i \in 1..Len(AskOrder) :
             /\ AskOrder[i] \in StillMissing(pending)
             /\ \A j \in 1..(i - 1) : AskOrder[j] \notin StillMissing(pending)]

\* C9: when a collection turn ends with a required field still missing, the
\* reply is one prompt, that of the first still-missing required field in
\* the order product_name, store_name, purchase_date, return_date, reason,
\* price/currency; with only product_name filled it asks for the store.
C9_AsksFirstMissingField ==
  (/\ last.kind = "turn" /\ last.handler = "insert_flow"
   /\ last.raised = "" /\ ~last.submitted
   /\ StillMissing(sessions[last.session].pending_return) # {}) =>
    last.reply = Reply(PromptOf[FirstMissing(sessions[last.session].pending_return)], <<>>)

\* only product_name is filled and the reply asks for the store
C9_Witness ==
  /\ last.kind = "turn"
  /\ last.handler = "insert_flow"
  /\ sessions[last.session].pending_return =
       [ EmptyPending EXCEPT !.product_name = Some(<<"i","P","h","o","n","e">>) ]
  /\ last.reply = Reply("Which store did you buy it from?", <<>>)

KeyStored(db, key) == \E i \in 1..Len(db) : db[i].dedupe_key = key

\* C10: when sessions submit records with the same fingerprint, in any
\* interleaving of their commits, the commit that finds the key absent
\* inserts its row and is confirmed, every commit that finds it present
\* gets the duplicate error and leaves the table as it is; the table never
\* holds two rows with one fingerprint, and no step changes or removes a
\* row already written.
C10_OneWriterWins ==
  [][ /\ Len(store') >= Len(store)
      /\ \A i \in 1..Len(store) : store'[i] = store[i] /\ writers'[i] = writers[i]
      /\ \A i, j \in 1..Len(store') :
           store'[i].dedupe_key = store'[j].dedupe_key => i = j
      /\ last'.kind = "commit" =>
           IF KeyStored(store, generate_dedupe_key(Val(last'.requests[1])))
           THEN /\ store' = store
                /\ last'.reply = Reply(DuplicateMessage, <<>>)
           ELSE /\ Len(store') = Len(store) + 1
                /\ TupleOf(store'[Len(store')]) = TupleOf(Val(last'.requests[1]))
                /\ writers'[Len(store')] = last'.session
                /\ last'.reply.text = ConfirmationTemplate ]_vars

\* both sessions had begun their insert with the key absent; the other
\* session committed first and this one gets the duplicate error
C10_Witness ==
  /\ last.kind = "commit"
  /\ last.free_at_begin
  /\ last.reply = Reply(DuplicateMessage, <<>>)
  /\ Len(store) = last.rows_before
  /\ \E i \in 1..Len(store) :
       /\ store[i].dedupe_key = generate_dedupe_key(Val(last.requests[1]))
       /\ writers[i] \in Sessions \ { last.session }

\* the table as it was before the last operation
StoreBefore == SubSeq(store, 1, last.rows_before)

\* the pending fields of the last turn at the end of its field extraction
ExtractedLast ==
  extract_fields(Stripped(last.text), last.pending_before)

\* the last turn was a collection turn that came to the submission with no
\* field missing
AtSubmission ==
  /\ last.kind = "turn" /\ last.handler = "insert_flow"
  /\ ~ExtractedLast.raised
  /\ \A i \in 1..Len(Required) : ~Falsy(Required[i], ExtractedLast.pending[Required[i]])

\* C11: a duplicate or validation error raised at the submission never
\* escapes handle_message: the turn returns normally and the reply text is
\* the message of the error, the duplicate-return message for a duplicate.
C11_SubmissionErrorsAreReplies ==
  AtSubmission =>
    Bind(InsertReturnRequest(ExtractedLast.pending), LAMBDA req :
      IF ~req.ok
      THEN /\ last.raised = ""
           /\ last.reply = Reply(ValidationErrorText, req.errors)
      ELSE ViolatesUnique(StoreBefore, NewReturn(req.data, 0)) =>
             /\ last.raised = ""
             /\ last.reply = Reply(DuplicateMessage, <<>>))

\* a complete request whose key is in the table: the turn returns the
\* duplicate message
C11_Witness ==
  /\ AtSubmission
  /\ InsertReturnRequest(ExtractedLast.pending).ok
  /\ ViolatesUnique(StoreBefore, NewReturn(InsertReturnRequest(ExtractedLast.pending).data, 0))
  /\ last.raised = ""
  /\ last.reply = Reply(DuplicateMessage, <<>>)
  /\ store = StoreBefore

\* what a caller gets from a call: the reply, the state, the exception
Answer(out) == << out.reply, out.state, out.raised >>

\* whichever turn comes next, it answers as a Coordinator whose retriever
\* was never used would answer it
RetrieverNotRemembered ==
  \A s \in Sessions, m \in StoreMessages, ranking \in RankingsFor(store) :
    Answer(handle_message(m, sessions[s], store, rag, ranking))
      = Answer(handle_message(m, sessions[s], store, NewRetriever, ranking))

\* C12: two sessions with their own ConversationState, served by one
\* Coordinator, are isolated: their states never hold the same
\* pending-fields dict, at construction or after a reset; the last step,
\* of one session, of the loader or of the retriever, has left the mode and
\* the pending fields of every other session as they were; and what the
\* Coordinator keeps between turns (its retriever's index and records)
\* changes neither the reply nor the resulting state of a later turn.
C12_SessionsIsolated ==
  /\ \A s, t \in Sessions : s # t => dicts[s] # dicts[t]
  /\ \A t \in Sessions : last.session # t => sessions[t] = last.sessions_before[t]
  /\ RetrieverNotRemembered

\* session A's submission has reset its state while session B is in the
\* middle of its own, and the Coordinator's retriever holds the index of an
\* earlier retrieval turn
C12_Witness ==
  /\ last.kind = "commit" /\ last.session = "A"
  /\ AllNull(sessions["A"].pending_return) /\ sessions["A"].mode = NoMode
  /\ ~AllNull(sessions["B"].pending_return) /\ sessions["B"].mode = "insert_return"
  /\ dicts["A"] # dicts["B"]
  /\ rag.index # None
  /\ Len(store) > Val(rag.index)

\* the rows of the file that the last run of the loader inserted
InsertedRows(log) == { k \in 1..Len(log) : log[k] = "inserted" }

\* C13: the returns table is append-only under every sequence of calls and
\* loader runs: no step changes or removes a row already written; a
\* submission that is confirmed adds exactly one row, that of its request,
\* and a submission refused as a duplicate or for its validation adds none;
\* a run of the loader adds exactly one row per row it inserted; analytics,
\* forecast and retrieval turns, and collection turns that end with a
\* prompt, leave the table as it is.
C13_StoreAppendOnly ==
  [][ /\ Len(store') >= Len(store)
      /\ \A i \in 1..Len(store) : store'[i] = store[i]
      /\ (last'.kind = "turn" /\ last'.reply.text = ConfirmationTemplate) =>
           /\ last'.submitted
           /\ Len(store') = Len(store) + 1
           /\ store'[Len(store')].id = last'.reply.args[5]
      /\ (last'.kind = "turn" /\ last'.reply.text # ConfirmationTemplate) =>
           store' = store
      /\ last'.kind = "ingest" =>
           Len(store') = Len(store) + Cardinality(InsertedRows(last'.reply.args)) ]_vars

\* a submission refused for its validation on a table that holds the rows
\* of a confirmed submission and of a loader run: the rows are as they were
C13_Witness ==
  /\ last.kind = "turn"
  /\ last.submitted /\ last.reply.text = ValidationErrorText
  /\ last.rows_before >= 2
  /\ Len(store) = last.rows_before
  /\ \E i, j \in 1..Len(store) : writers[i] = "A" /\ writers[j] = "csv"

\* the rows of the last loader run that were converted and whose key was
\* neither in the table before the run nor carried by an earlier converted
\* row of the file
FirstOfKey(k) ==
  /\ last.requests[k] # None
  /\ ~KeyStored(StoreBefore, generate_dedupe_key(Val(last.requests[k])))
  /\ \A j \in 1..(k - 1) :
       last.requests[j] # None =>
         generate_dedupe_key(Val(last.requests[j]))
           # generate_dedupe_key(Val(last.requests[k]))

\* the numbers of those rows, in the order of the file
NewKeyRows == SelectSeq([ k \in 1..Len(last.requests) |-> k ], FirstOfKey)

\* C14: the loader processes every row of the file in order: a row that
\* fails conversion or carries a key already stored is skipped and the
\* rows after it are still attempted, so that exactly the rows that are
\* the first of their key are inserted, in the order of the file; the
\* count returned is the number of rows the run added to the table.
C14_EveryRowAttempted ==
  last.kind = "ingest" =>
    /\ Len(last.reply.args) = Len(last.requests)
    /\ \A k \in 1..Len(last.requests) :
         last.reply.args[k] =
           IF last.requests[k] = None THEN "malformed"
           ELSE IF FirstOfKey(k) THEN "inserted" ELSE "duplicate"
    /\ last.inserted = Len(store) - last.rows_before
    /\ last.inserted = Len(NewKeyRows)
    /\ \A i \in 1..Len(NewKeyRows) :
         store[last.rows_before + i] =
           NewReturn(Val(last.requests[NewKeyRows[i]]), last.rows_before + i)

\* a file whose first row is malformed, whose second is good and whose
\* third repeats the second: one row is added and the count is 1
C14_Witness ==
  /\ last.kind = "ingest"
  /\ last.reply.args = << "malformed", "inserted", "duplicate" >>
  /\ last.inserted = 1
  /\ Len(store) = last.rows_before + 1
  /\ last.rows_before >= 1

\* C15: for all non-negative counts current and previous the trend label is
\* "increasing" exactly when current > previous, "decreasing" exactly when
\* current < previous and "flat" exactly when they are equal; so 0 against
\* 0 is "flat" and a positive count against 0 is "increasing".
C15_TrendIsComparison ==
  returned # None =>
    /\ Val(returned) \in { "increasing", "decreasing", "flat" }
    /\ Val(returned) = "increasing" <=> given.current > given.previous
    /\ Val(returned) = "decreasing" <=> given.current < given.previous
    /\ Val(returned) = "flat" <=> given.current = given.previous

\* a positive count against an empty previous window
C15_Witness ==
  /\ returned = Some("increasing")
  /\ given.previous = 0
  /\ given.current > 0

\* the distinct return dates of the history the forecast was called on
ObservedDays == { given.history[i].return_date : i \in 1..Len(given.history) }

\* the number of returns of day d
CountOn(d) ==
  Cardinality({ i \in 1..Len(given.history) : given.history[i].return_date = d })

\* the last min(7, n) observed days
WindowDays ==
  { d \in ObservedDays :
      Cardinality({ e \in ObservedDays : e > d }) < Min(7, Cardinality(ObservedDays)) }

LastObserved == CHOOSE d \in ObservedDays : \A e \in ObservedDays : e <= d

\* the number of returns on the days of the window
WindowTotal ==
  Cardinality({ i \in 1..Len(given.history) :
                  given.history[i].return_date \in WindowDays })

\* C16: on a non-empty history the forecast returns exactly horizon_days
\* predictions, dated last observed day + 1 .. + horizon_days in order, each
\* with the mean of the daily counts of the last min(7, n) observed days, n
\* the number of distinct return dates; on an empty history it fails.
C16_ForecastIsWindowMean ==
  returned # None =>
    IF given.history = <<>> THEN Val(returned).raised
    ELSE /\ ~Val(returned).raised
         /\ Len(Val(returned).predictions) = given.horizon_days
         /\ \A i \in 1..given.horizon_days :
              /\ Val(returned).predictions[i].date = LastObserved + i
              /\ Val(returned).predictions[i].predicted_value[1] * Cardinality(WindowDays)
                   = WindowTotal * Val(returned).predictions[i].predicted_value[2]

\* eight observed days with differing counts: the window leaves out the
\* first day, whose count differs from the mean
C16_Witness ==
  /\ returned # None
  /\ Cardinality(ObservedDays) = 8
  /\ Cardinality(WindowDays) = 7
  /\ given.horizon_days = 2
  /\ Len(Val(returned).predictions) = 2
  /\ Val(returned).predictions[2].date = Today + 1
  /\ WindowTotal * 8 # Len(given.history) * 7
  /\ Val(returned).predictions[1].predicted_value = << WindowTotal, 7 >>

\* C17: when every daily count of the trailing window is the same integer
\* c, as on a single-day history with count c, every predicted value is c
\* and the backtest MAE is 0.
C17_ConstantWindowIsExact ==
  (returned # None /\ given.history # <<>>) =>
    \A c \in 1..MaxPerDay :
      (\A d \in WindowDays : CountOn(d) = c) =>
        /\ \A i \in 1..Len(Val(returned).predictions) :
             Val(returned).predictions[i].predicted_value[1]
               = c * Val(returned).predictions[i].predicted_value[2]
        /\ Val(returned).metric_value[1] = 0
        /\ Val(returned).metric_value[2] > 0

\* a single day with two returns: both predictions are 2 and the MAE is 0
C17_Witness ==
  /\ returned # None
  /\ Cardinality(ObservedDays) = 1
  /\ Len(given.history) = 2
  /\ Len(Val(returned).predictions) = 2
  /\ \A i \in 1..2 : Val(returned).predictions[i].predicted_value = << 2, 1 >>
  /\ Val(returned).metric_value[1] = 0

\* the prompts of _ask_next
Prompts == { PromptOf[k] : k \in DOMAIN PromptOf } \cup { "Please provide the missing details." }

\* C18: at the end of the field extraction of a collection turn the
\* submission is attempted if and only if the six required fields
\* (product_name, store_name, purchase_date, reason_raw, price, currency)
\* are all non-null, whatever values they hold, a price of 0 included;
\* otherwise the mode stays insert_return and the reply is a prompt.
C18_SubmitsWhenComplete ==
  (last.kind = "turn" /\ last.handler = "insert_flow" /\ last.raised = "") =>
    /\ last.submitted <=>
         \A i \in 1..Len(Required) : ExtractedLast.pending[Required[i]] # None
    /\ ~last.submitted =>
         /\ sessions[last.session].mode = "insert_return"
         /\ last.reply.text \in Prompts

\* the six required fields are filled, the price being 0.0, and the turn
\* asks for the price instead of submitting
C18_Witness ==
  /\ last.kind = "turn" /\ last.handler = "insert_flow" /\ last.raised = ""
  /\ \A i \in 1..Len(Required) :
       sessions[last.session].pending_return[Required[i]] # None
  /\ sessions[last.session].pending_return.price = Some([m |-> 0, e |-> 0])
  /\ ~last.submitted
  /\ last.reply = Reply("What was the price and currency?", <<>>)
  /\ sessions[last.session].mode = "insert_return"

\* the pending fields as the last call of _extract_fields left them
FieldsAfter == Val(returned).pending

\* C19: the utterance is taken whole as the store name only when
\* product_name was known before the utterance was processed; no utterance
\* becomes, whole, both the product name and the store name, the first
\* message of a flow included.
C19_StoreFallbackNeedsProduct ==
  (returned # None /\ given.pending.store_name = None) =>
    /\ FieldsAfter.store_name = Some(Strip(given.text)) =>
         given.pending.product_name # None
    /\ ~(/\ given.pending.product_name = None
         /\ FieldsAfter.product_name = Some(Strip(given.text))
         /\ FieldsAfter.store_name = Some(Strip(given.text)))

\* "refund please" as the first message of a flow is the product and the
\* store
C19_Witness ==
  /\ returned # None
  /\ given.pending = EmptyPending
  /\ given.text = <<"r","e","f","u","n","d"," ","p","l","e","a","s","e">>
  /\ FieldsAfter.product_name = Some(<<"r","e","f","u","n","d"," ","p","l","e","a","s","e">>)
  /\ FieldsAfter.store_name = Some(<<"r","e","f","u","n","d"," ","p","l","e","a","s","e">>)

\* what follows the first "return " of the utterance
AfterReturn ==
  Tail_(given.text, Find(Lower(given.text), <<"r","e","t","u","r","n"," ">>) + 7)

\* the first word of s, up to its first space
FirstWord(s) ==
  SubSeq(s, 1, CHOOSE n \in 0..Len(s) :
                 /\ \A j \in 1..n : ~IsSpace(s[j])
                 /\ n = Len(s) \/ IsSpace(s[n + 1]))

\* the phrase after "return " and after the article my, an or a, if the
\* first word is one and a phrase follows it
TrailingPhrase ==
  IF /\ Lower(FirstWord(AfterReturn)) \in { <<"m","y">>, <<"a","n">>, <<"a">> }
     /\ Strip(Tail_(AfterReturn, Len(FirstWord(AfterReturn)) + 1)) # <<>>
  THEN Strip(Tail_(AfterReturn, Len(FirstWord(AfterReturn)) + 1))
  ELSE Strip(AfterReturn)

\* C20: when product_name is null and the utterance holds "return ", an
\* optional article (my, an, a) and a phrase, product_name becomes that
\* trailing phrase, whole words and trimmed, also when the first word of
\* the phrase begins with the letters a, an or my ("return apple tv" gives
\* "apple tv").
C20_ProductIsTrailingPhrase ==
  (/\ returned # None
   /\ given.pending.product_name = None
   /\ Contains(Lower(given.text), <<"r","e","t","u","r","n"," ">>)
   /\ Strip(AfterReturn) # <<>>) =>
    FieldsAfter.product_name = Some(TrailingPhrase)

\* "return apple tv" gives "pple tv"
C20_Witness ==
  /\ returned # None
  /\ given.pending.product_name = None
  /\ given.text = <<"r","e","t","u","r","n"," ","a","p","p","l","e"," ","t","v">>
  /\ TrailingPhrase = <<"a","p","p","l","e"," ","t","v">>
  /\ FieldsAfter.product_name = Some(<<"p","p","l","e"," ","t","v">>)

\* C21: at every turn boundary of every session price and currency are
\* both null or both non-null; the last turn has either left both as they
\* were, or set both from the one match of its text, or cleared both in
\* the reset of a submission.
C21_PriceAndCurrencyTogether ==
  /\ \A s \in Sessions :
       sessions[s].pending_return.price = None
         <=> sessions[s].pending_return.currency = None
  /\ last.kind = "turn" =>
       \/ /\ sessions[last.session].pending_return.price = last.pending_before.price
          /\ sessions[last.session].pending_return.currency = last.pending_before.currency
       \/ /\ Facts(Stripped(last.text)).price # None
          /\ sessions[last.session].pending_return.price
               = Some(Val(Facts(Stripped(last.text)).price).price)
          /\ sessions[last.session].pending_return.currency
               = Some(Upper(Val(Facts(Stripped(last.text)).price).currency))
       \/ /\ last.submitted
          /\ sessions[last.session].pending_return.price = None
          /\ sessions[last.session].pending_return.currency = None

\* a collection turn that ends with a prompt has set the price and the
\* currency from its text, neither being known before
C21_Witness ==
  /\ last.kind = "turn" /\ ~last.submitted
  /\ last.pending_before.price = None /\ last.pending_before.currency = None
  /\ last.text = MsgPrice
  /\ sessions[last.session].pending_return.price = Some([m |-> 50, e |-> 0])
  /\ sessions[last.session].pending_return.currency = Some(<<"U","S","D">>)

\* the returns of the report's table that the product filter keeps and
\* whose return date lies in [from, to]
Counted(from, to) ==
  { i \in 1..Len(given.table) :
      /\ given.table[i].return_date >= from
      /\ given.table[i].return_date <= to
      /\ (given.product_name = None
            \/ given.table[i].product_name = Val(given.product_name)) }

\* C22: a report over [start_date, end_date] of L >= 1 days compares with
\* exactly [start_date - L, start_date - 1]: the same length, ending the
\* day before, the two counts being those of the returns dated within the
\* two windows, which share no return; with both dates omitted the window
\* is the 14 days ending today; a window with no return gives (0, 0.0).
C22_ComparisonWindow ==
  returned # None =>
    LET out == Val(returned)
        L   == out.end_date - out.start_date + 1
    IN  /\ given.start # None => out.start_date = Val(given.start)
        /\ given.end # None => out.end_date = Val(given.end)
        /\ (given.start = None /\ given.end = None) =>
             out.end_date = Today /\ out.start_date = Today - 13 /\ L = 14
        /\ out.start_date <= out.end_date =>
             /\ out.prev_start = out.start_date - L
             /\ out.prev_end = out.start_date - 1
             /\ out.prev_end - out.prev_start + 1 = L
             /\ out.total_returns
                  = Cardinality(Counted(out.start_date, out.end_date))
             /\ out.prev_returns
                  = Cardinality(Counted(out.prev_start, out.prev_end))
             /\ Counted(out.start_date, out.end_date)
                  \cap Counted(out.prev_start, out.prev_end) = {}
             /\ out.total_returns + out.prev_returns
                  = Cardinality(Counted(out.prev_start, out.end_date))
        /\ Counted(out.start_date, out.end_date) = {} =>
             out.total_returns = 0 /\ out.total_loss = ZeroFloat

\* a report over two explicit days of a table with a return on the first
\* day of the window and one on the day before it: one return in each
\* window
C22_Witness ==
  /\ returned # None
  /\ given.start = Some(Today - 1) /\ given.end = Some(Today)
  /\ given.product_name = None
  /\ Len(given.table) = 2
  /\ given.table[1].return_date = Today - 2
  /\ given.table[2].return_date = Today - 1
  /\ Val(returned).total_returns = 1
  /\ Val(returned).prev_returns = 1
  /\ Val(returned).prev_start = Today - 3
  /\ Val(returned).prev_end = Today - 2

\* C23: after every turn that returns a reply, a session in mode
\* insert_return has at least one of the six required fields still null, a
\* session in no mode has every pending field null, and the mode is one of
\* these two: never forecast, analytics or rag.
C23_ModeMatchesPending ==
  (last.kind = "turn" /\ last.raised = "") =>
    LET state == sessions[last.session]
    IN  /\ state.mode = "insert_return" =>
             \E k \in { Required[i] : i \in 1..Len(Required) } :
               state.pending_return[k] = None
        /\ state.mode = NoMode => AllNull(state.pending_return)
        /\ state.mode \in { "insert_return", NoMode }

\* a turn has returned the price prompt and left the session collecting
\* although none of the six required fields is null: the price is 0.0
C23_Witness ==
  /\ last.kind = "turn" /\ last.raised = ""
  /\ sessions[last.session].mode = "insert_return"
  /\ \A i \in 1..Len(Required) :
       sessions[last.session].pending_return[Required[i]] # None
  /\ Val(sessions[last.session].pending_return.price).m = 0
  /\ last.reply = Reply("What was the price and currency?", <<>>)

\* the two other parts of C23 taken alone: after a turn that returns a
\* reply, no mode means no pending field, and the mode is never one of the
\* single-turn intents
C23_NoModeIsEmpty ==
  (last.kind = "turn" /\ last.raised = "") =>
    /\ sessions[last.session].mode = NoMode =>
         AllNull(sessions[last.session].pending_return)
    /\ sessions[last.session].mode \in { "insert_return", NoMode }

\* a return whose purchase date has the shape of a date and names no day
NoSuchDay == <<"r","e","t","u","r","n"," ","m","y"," ","t","v"," ","2","0","2","5","-","1","3","-","4","5">>

\* C24: a collection turn that does not reach the submission returns a
\* reply, one of the prompts, for every message text, a text with a
\* date-shaped token that is no calendar date included: the field
\* extraction raises nothing, and no turn ends by an exception with
\* pending fields it has set.
C24_CollectionTurnReturns ==
  (last.kind = "turn" /\ last.handler = "insert_flow") =>
    /\ ~last.submitted => last.raised = "" /\ last.reply.text \in Prompts
    /\ last.raised # "" =>
         sessions[last.session].pending_return = last.pending_before

\* the turn "return my tv 2025-13-45" on a fresh session ends by the
\* ValueError of strptime, and the session keeps the mode and the product
\* and store the turn had set before the date
C24_Witness ==
  /\ last.kind = "turn" /\ last.handler = "insert_flow"
  /\ last.text = NoSuchDay
  /\ last.raised = "ValueError"
  /\ AllNull(last.pending_before) /\ last.mode_before = NoMode
  /\ sessions[last.session].mode = "insert_return"
  /\ sessions[last.session].pending_return.product_name = Some(<<"t","v"," ","2","0","2","5","-","1","3","-","4","5">>)
  /\ sessions[last.session].pending_return.store_name = Some(NoSuchDay)
  /\ sessions[last.session].pending_return.purchase_date = None

\* the text _generate_dedupe_key builds for a request before hashing it
KeyText(data) == generate_dedupe_key(data)[2]

\* the requests the last operation submitted to insert_return
Submitted == { k \in 1..Len(last.requests) : last.requests[k] # None }

\* C25: two requests whose (product_name, store_name, purchase_date, price,
\* currency) tuples differ build different key texts, names with the
\* separator "|" included, so that a request is refused as a duplicate
\* only if its very tuple was stored before it.
C25_KeyTextTellsTuplesApart ==
  last.kind \in { "commit", "ingest" } =>
    /\ \A k \in Submitted :
         /\ \A i \in 1..Len(store) :
              TupleOf(store[i]) # TupleOf(Val(last.requests[k])) =>
                KeyText(store[i]) # KeyText(Val(last.requests[k]))
         /\ \A j \in Submitted :
              TupleOf(Val(last.requests[j])) # TupleOf(Val(last.requests[k])) =>
                KeyText(Val(last.requests[j])) # KeyText(Val(last.requests[k]))
    /\ last.kind = "commit" =>
         (last.reply.text = DuplicateMessage => ~FirstOfTuple(1))
    /\ last.kind = "ingest" =>
         \A k \in Submitted :
           last.reply.args[k] = "duplicate" => ~FirstOfTuple(k)

\* the loader has stored the return of product "a|b" at store "c", and the
\* return of product "a" at store "b|c", with the same key text, was
\* refused as a duplicate
C25_Witness ==
  /\ last.kind = "ingest" /\ Len(last.requests) = 2
  /\ Submitted = { 1, 2 }
  /\ Val(last.requests[1]).product_name = <<"a", "|", "b">>
  /\ Val(last.requests[2]).store_name = <<"b", "|", "c">>
  /\ KeyText(Val(last.requests[1])) = KeyText(Val(last.requests[2]))
  /\ last.reply.args = << "inserted", "duplicate" >>
  /\ \E i \in 1..Len(store) : store[i].product_name = <<"a", "|", "b">>
  /\ \A i \in 1..Len(store) : store[i].store_name # <<"b", "|", "c">>

\* C26: a search with top_k = 3 after a rebuild over n >= 1 records
\* returns at most min(3, n) results, each of them a record of the index
\* and none of them twice, also when n < 3 and the index pads its answer
\* with -1.
C26_SearchResultsDistinct ==
  (last.kind = "search" /\ last.raised = "" /\ rag.records # <<>>) =>
    /\ Len(last.reply.args) <= Min(3, Len(rag.records))
    /\ \A i \in 1..Len(last.reply.args) :
         \E r \in 1..Len(rag.records) :
           /\ rag.records[r].id = last.reply.args[i].id
           /\ rag.records[r].reason_raw = last.reply.args[i].content
    /\ \A i, j \in 1..Len(last.reply.args) :
         last.reply.args[i].id = last.reply.args[j].id => i = j

\* the index holds one record and the search returns it three times: once
\* as the nearest, twice for the padding
C26_Witness ==
  /\ last.kind = "search" /\ last.raised = ""
  /\ rag.index = Some(1) /\ Len(rag.records) = 1
  /\ Len(last.reply.args) = 3
  /\ \A i \in 1..3 : last.reply.args[i].id = rag.records[1].id

\* a search over an index of at least top_k records, where nothing is
\* padded: as many results as asked for, no record twice
C26_FullIndexDistinct ==
  (last.kind = "search" /\ last.raised = "" /\ Len(rag.records) >= 3) =>
    /\ Len(last.reply.args) = 3
    /\ \A i, j \in 1..3 :
         last.reply.args[i].id = last.reply.args[j].id => i = j

====
